---- MODULE Spec2Model ----
(***************************************************************************)
(* Model of the Advent-of-Code runner's data aggregation core:             *)
(*   - DataTracker / RuntimeTracker / AnswerTracker  (data_tracker.py,     *)
(*     Loggers/runtime_logger.py, Loggers/answer_logger.py)                *)
(*   - Logger: pending queue, flush, load/save, context manager            *)
(*     (Loggers/__init__.py), RunnerHandler (aoc_runner/__init__.py)       *)
(*                                                                         *)
(* A tracker (a tree of nested DataTracker objects) is a function from key *)
(* paths to nodes; the node at the empty path is the tracker itself.       *)
(* Durations are integers (milliseconds); a quotient is the reduced        *)
(* fraction <<numerator, denominator>>.                                    *)
(***************************************************************************)
EXTENDS Integers, Sequences, FiniteSets, TLC

VARIABLES
    tracker,        \* SpecTracker: a RuntimeTracker driven through add_data
    lastErr,        \* SpecTracker: outcome of the last add_data call
    lastKey,        \* SpecTracker: key path of the last add_data call
    tkind,          \* the class of the tracker: "runtimes" or "answers"
    longest,        \* RuntimeTracker.longest: absent until longest_runtimes has run
    before,         \* (history) the tree when the last call began
    lastVal,        \* (history) new_data of the last add_data call
    repeated,       \* (history) the last add_data call repeated the one before it
    trackerOp,      \* (history) the tracker method that was called last
    ret,            \* (history) what the last __contains__ / __getitem__ / __call__ returned
    \* one Logger (a sink)
    data,           \* Logger.data: the tracker of the sink
    data_incorrect, \* AnswerTracker: data.data["incorrect"].data, the shadow subtree
    changed_data,   \* Logger.changed_data
    changed_incorrect, \* the shadow subtree of changed_data
    correct,        \* AnswerLogger.correct
    ran,            \* the union of Language.ran over LANGS
    min_time,       \* RuntimeLogger.min_time (a key is absent until first set)
    max_time,       \* RuntimeLogger.max_time
    new_data,       \* Logger.new_data: the pending queue of (args, kwargs) entries
    post_load,      \* Logger.post_load: the callables attached to the event
    on_log,         \* Logger.on_log
    pre_exit,       \* Logger.pre_exit
    on_exit,        \* Logger.on_exit
    post_exit,      \* Logger.post_exit
    file,           \* the document at data_yaml_path: whether it exists, and its leaves
    known,          \* the site: the (year, day, part) solved on the account
    cache,          \* CACHE_DIR: the site's responses by URL (web.get_from_url)
    nextId,         \* (history) the number the next enqueued entry gets
    delivered,      \* (history) every callback invocation and save, in order
    flushed,        \* (history) per Logger.log call: its callables and the entries it took
    asked,          \* (history) the calls the last log_part made to web.get_answers / web.submit_answer
    \* the run around the sink
    kind,           \* Logger.name: "runtimes" or "answers"
    cfg,            \* args: no_load, no_save
    phase,          \* "new", "entered", "raised", "exited", "aborted"
    session,        \* the number of the process (a restart begins the next)
    runs,           \* Language.add_part calls made so far
    hubOp,          \* (history) the handler that returned last
    opFrom,         \* (history) Len(delivered) when the last handler began
    exitRet,        \* (history) what the last __exit__ returned
    loggerExits,    \* (history) Logger.__exit__ calls made by the process
    viewerExits,    \* (history) Viewer.__exit__ calls made by the process
    saved           \* (history) the tracker leaves and shadow at the last write of the file

trackerVars == <<tracker, lastErr, lastKey, tkind, longest, before, lastVal, repeated,
                 trackerOp, ret>>
loggerVars == <<data, data_incorrect, changed_data, changed_incorrect, correct, ran,
                min_time, max_time, new_data, post_load, on_log, pre_exit, on_exit,
                post_exit, file, known, cache, nextId, delivered, flushed, asked>>
runVars == <<kind, cfg, phase, session, runs, hubOp, opFrom, exitRet, loggerExits,
            viewerExits, saved>>

-----------------------------------------------------------------------------
(* Key segments.  LANGS holds the Language instances by class name.        *)

Langs == {"Python", "Rust"}
Years == {2023}
Days  == {1, 2}
Parts == {1, 2}
TimeValues == {500, 1500}

LeafPaths == {<<l, y, d, p>> : l \in Langs, y \in Years, d \in Days, p \in Parts}

Prefix(p, n) == SubSeq(p, 1, n)

\* the key paths add_data is called with in SpecTracker: every prefix of a
\* leaf path of one language, the empty path included
KeyPaths == {Prefix(p, n) : p \in {q \in LeafPaths : q[1] = "Python"}, n \in 0..4}

-----------------------------------------------------------------------------
(* Arithmetic                                                              *)

Range(q) == {q[i] : i \in 1..Len(q)}

\* statement sequencing: e is evaluated once and its value is handed to F
Then(e, F(_)) == CHOOSE r \in {F(x) : x \in {e}} : TRUE

RECURSIVE GCD(_, _)
GCD(a, b) == IF b = 0 THEN a ELSE GCD(b, a % b)

\* a / b of two non-negative numbers, b > 0, as a reduced fraction
Quot(a, b) == LET g == GCD(a, b) IN <<a \div g, b \div g>>

RECURSIVE SumOver(_, _)
SumOver(S, f) ==
    IF S = {} THEN 0
    ELSE LET x == CHOOSE e \in S : TRUE IN f[x] + SumOver(S \ {x}, f)

-----------------------------------------------------------------------------
(* DataTracker                                                             *)

LeafNode(v) == [leaf |-> TRUE, value |-> v, total |-> 0, average |-> <<0, 1>>]

\* a freshly constructed RuntimeTracker: data = {}, total = 0, average = 0
NewTracker == [leaf |-> FALSE, value |-> 0, total |-> 0, average |-> <<0, 1>>]

EmptyTree == (<<>> :> NewTracker)

IsPrefix(p, q) == Len(p) <= Len(q) /\ Prefix(q, Len(p)) = p

\* the keys of self.data of the tracker at path `at`, as full paths
Children(t, at) == {p \in DOMAIN t : Len(p) = Len(at) + 1 /\ IsPrefix(at, p)}

IsLeaf(t, p) == p \in DOMAIN t /\ t[p].leaf
IsInterior(t, p) == p \in DOMAIN t /\ ~t[p].leaf

\* self.data[k] = x : whatever was bound to k, a subtree included, is dropped
Bind(t, p, node) ==
    LET keep == {q \in DOMAIN t : ~IsPrefix(p, q)}
    IN  [q \in keep \cup {p} |-> IF q = p THEN node ELSE t[q]]

\* (mutant) the mean taken over the leaves below instead of over len(self.data)
RuntimeUpdateMeanOverLeaves(t, at) ==
    LET kids == Children(t, at)
        tot  == SumOver(kids, [c \in kids |-> IF t[c].leaf THEN t[c].value ELSE t[c].total])
        n    == Cardinality({p \in DOMAIN t : t[p].leaf /\ IsPrefix(at, p)})
    IN  [t EXCEPT ![at].total = tot, ![at].average = Quot(tot, n)]

\* (mutant) the total kept incrementally instead of recomputed
RuntimeUpdateAccumulating(t, at) ==
    LET kids == Children(t, at)
        tot  == SumOver(kids, [c \in kids |-> IF t[c].leaf THEN t[c].value ELSE t[c].total])
    IN  [t EXCEPT ![at].total = @ + tot, ![at].average = Quot(tot, Cardinality(kids))]

\* RuntimeTracker.update of the tracker at path `at`

RuntimeUpdate(t, at) ==
    LET kids == Children(t, at)
        tot  == SumOver(kids, [c \in kids |-> IF t[c].leaf THEN t[c].value ELSE t[c].total])
    IN  [t EXCEPT ![at].total = tot, ![at].average = Quot(tot, Cardinality(kids))]

\* str(ans) of AnswerTracker.update: a value that is not a str (written
\* "int:n") becomes its decimal text; a str stays as it is
PyStr(v) == CASE v = "int:42" -> "42" [] v = "int:99" -> "99" [] OTHER -> v

\* (mutant) the values kept as they were handed in
AnswerUpdateNone(t, at) == t

\* AnswerTracker.update of the tracker at path `at`: every value of self.data
\* that is not a tracker is replaced by its str
AnswerUpdate(t, at) ==
    [p \in DOMAIN t |->
        IF p \in Children(t, at) /\ t[p].leaf
        THEN [t[p] EXCEPT !.value = PyStr(@)]
        ELSE t[p]]

\* DataTracker.add_data on the tracker at path `at`; tk (the Logger's name) selects the
\* subclass's update hook.  The result is the tree the call leaves behind
\* and the exception that ended it ("ok" when it returned).
Update(tk, t, at) == IF tk = "runtimes" THEN RuntimeUpdate(t, at) ELSE AnswerUpdate(t, at)

\* a runtime that is no float (an int, a str, None)
NotAFloat == -1

\* an answer of more than two lines that holds a character other than a
\* pixel, a space or a newline
NotPixels == "ab/cd/ef"

\* the exception self.update() raises on the tracker at path `at` ("ok" when
\* it returns): v.total of a value that is neither a float nor a tracker, or
\* the assert on the characters of an answer of several lines
UpdateErr(tk, t, at) ==
    IF tk = "runtimes"
    THEN IF \E c \in Children(t, at) : t[c].leaf /\ t[c].value = NotAFloat
         THEN "AttributeError" ELSE "ok"
    ELSE IF \E c \in Children(t, at) : t[c].leaf /\ t[c].value = NotPixels
         THEN "AssertionError" ELSE "ok"

\* self.update() at the end of add_data: the hook raises before it assigns
\* anything (RuntimeTracker) or after it has rewritten the strs before the
\* offending answer with themselves (AnswerTracker)
Updated(tk, t, at) ==
    IF UpdateErr(tk, t, at) # "ok"
    THEN [tree |-> t, err |-> UpdateErr(tk, t, at)]
    ELSE [tree |-> Update(tk, t, at), err |-> "ok"]

\* (mutant) an empty key accepted silently
EmptyKeyIgnored(t) == [tree |-> t, err |-> "ok"]

\* k = key[0] on an empty key: IndexError, raised before anything is bound
EmptyKey(t) == [tree |-> t, err |-> "IndexError"]

\* (mutant) a key that runs past a leaf accepted silently
PastLeafIgnored(t) == [tree |-> t, err |-> "ok"]

\* self.data[k].add_data(...) on a scalar: AttributeError, raised before
\* anything is bound or updated
PastLeaf(t) == [tree |-> t, err |-> "AttributeError"]

RECURSIVE add_data(_, _, _, _, _)
add_data(tk, t, at, key, val) ==
    IF Len(key) = 0
    THEN EmptyKey(t)                                        \* k = key[0]
    ELSE LET child == Append(at, Head(key)) IN
         IF Len(key) = 1
         THEN Updated(tk, Bind(t, child, LeafNode(val)), at)
         ELSE LET t1 == IF child \notin DOMAIN t
                        THEN Bind(t, child, NewTracker)
                        ELSE t
              IN  IF t1[child].leaf
                  THEN PastLeaf(t1)                         \* a scalar has no add_data
                  ELSE LET r == add_data(tk, t1, child, Tail(key), val)
                       IN  IF r.err # "ok"
                           THEN r                           \* raised before self.update()
                           ELSE Updated(tk, r.tree, at)

\* DataTracker.__contains__ / __getitem__ for a non-empty key
Contains(t, key) == key \in DOMAIN t

\* DataTracker.__len__ of the tracker at path `at`: the leaves below it
Size(t, at) == Cardinality({p \in DOMAIN t : t[p].leaf /\ IsPrefix(at, p)})

\* DataTracker.__contains__ on the tracker at path `at`: the value returned
\* and the exception that ended the call ("ok" when it returned)
RECURSIVE contains(_, _, _)
contains(t, at, key) ==
    IF Len(key) = 0
    THEN [val |-> FALSE, err |-> "IndexError"]              \* key[0]
    ELSE LET child == Append(at, Head(key)) IN
         IF Len(key) = 1 THEN [val |-> child \in DOMAIN t, err |-> "ok"]
         ELSE IF child \notin DOMAIN t THEN [val |-> FALSE, err |-> "ok"]
         ELSE IF t[child].leaf
              THEN [val |-> FALSE, err |-> "TypeError"]     \* key[1:] in <a scalar>
              ELSE contains(t, child, Tail(key))

\* DataTracker.__getitem__ on the tracker at path `at`: the path of the node
\* returned and the exception that ended the call
RECURSIVE getitem(_, _, _)
getitem(t, at, key) ==
    IF Len(key) = 0
    THEN [node |-> at, err |-> "IndexError"]                \* key[0]
    ELSE LET child == Append(at, Head(key)) IN
         IF child \notin DOMAIN t THEN [node |-> at, err |-> "KeyError"]
         ELSE IF Len(key) = 1 THEN [node |-> child, err |-> "ok"]
         ELSE IF t[child].leaf
              THEN [node |-> at, err |-> "TypeError"]       \* <a scalar>[key[1:]]
              ELSE getitem(t, child, Tail(key))

-----------------------------------------------------------------------------
(* RuntimeTracker.longest_runtimes                                         *)

NLongest == 10      \* n_longest=10

\* the position of a language in LANGS (classes in file-name order)
LangRank(l) == CASE l = "Python" -> 1 [] l = "Rust" -> 2

\* an order on the key paths of at most three segments.  It stands for the
\* order in which find_times meets them (the insertion order of the dicts),
\* which decides only the rank among equal values.
PathRank(p) ==
    LangRank(p[1]) * 10000
        + (IF Len(p) >= 2 THEN (p[2] - 2000) * 100 ELSE 0)
        + (IF Len(p) >= 3 THEN p[3] ELSE 0)

\* longest_arr of find_times: a scalar above the fourth level with its key
\* path, and every tracker at the third level (len(keys) == 2) with its total
find_times(t) ==
    {[value |-> IF t[p].leaf THEN t[p].value ELSE t[p].total, path |-> p] :
        p \in {q \in DOMAIN t : /\ Len(q) \in 1..3
                                 /\ (t[q].leaf \/ Len(q) = 3)}}

\* (mutant) the smallest first
RECURSIVE nsmallest(_, _)
nsmallest(n, S) ==
    IF S = {} \/ n = 0 THEN <<>>
    ELSE LET m == CHOOSE e \in S : \A f \in S :
                      \/ e.value < f.value
                      \/ (e.value = f.value /\ PathRank(e.path) <= PathRank(f.path))
         IN  <<m>> \o nsmallest(n - 1, S \ {m})

\* heapq.nlargest(n, longest_arr, key=lambda x: x[0])
RECURSIVE nlargest(_, _)
nlargest(n, S) ==
    IF S = {} \/ n = 0 THEN <<>>
    ELSE LET m == CHOOSE e \in S : \A f \in S :
                      \/ e.value > f.value
                      \/ (e.value = f.value /\ PathRank(e.path) <= PathRank(f.path))
         IN  <<m>> \o nlargest(n - 1, S \ {m})

\* self.longest after longest_runtimes: entry i + 1 is the leaf the new
\* RuntimeTracker holds at key (i, *path)
longest_runtimes(t) == [exists |-> TRUE, entries |-> nlargest(NLongest, find_times(t))]

NoLongest == [exists |-> FALSE, entries |-> <<>>]

\* (mutant) a render that leaves self.longest as it was
LongestKept(t, old) == old

\* RuntimeTracker.__call__: self.longest_runtimes() before the tables are built
LongestAtCall(t, old) == longest_runtimes(t)

-----------------------------------------------------------------------------
(* SpecTracker: a RuntimeTracker under arbitrary add_data calls            *)
(* SpecTrackers: a tracker of either class under add_data, lookups, render *)

TrackerKinds == {"runtimes", "answers"}

\* what a program hands over as an answer: a str, or an int (written "int:n")
AnswerValues == {"42", "int:42"}

Values(k) == IF k = "runtimes" THEN TimeValues ELSE AnswerValues

\* the key paths of the calls in SpecTrackers: the empty path, the two parts
\* of day 1, part 1 of day 2, and what lies above them
TrackerKeys == {k \in KeyPaths : Len(k) = 4 => (k[3] = 1 \/ k[4] = 1)}

\* lastVal when the last call was not an add_data
NoValue(k) == IF k = "runtimes" THEN 0 ELSE ""

Styles == {"DEFAULT", "SINGLE_BORDER", "DOUBLE_BORDER", "MARKDOWN"}

InitTracker ==
    /\ tracker = EmptyTree
    /\ lastErr = "none"
    /\ lastKey = <<>>
    /\ tkind = "runtimes"
    /\ longest = NoLongest
    /\ before = EmptyTree
    /\ lastVal = 0
    /\ repeated = FALSE
    /\ trackerOp = "init"
    /\ ret = <<>>

AddData(key, v) ==
    LET r == add_data(tkind, tracker, <<>>, key, v) IN
    /\ tracker' = r.tree
    /\ lastErr' = r.err
    /\ lastKey' = key
    /\ before' = tracker
    /\ lastVal' = v
    /\ repeated' = (trackerOp = "add_data" /\ lastErr = "ok" /\ lastKey = key /\ lastVal = v)
    /\ trackerOp' = "add_data"
    /\ ret' = <<>>
    /\ UNCHANGED <<tkind, longest>>
    /\ UNCHANGED <<loggerVars, runVars>>

NextTracker == \E key \in KeyPaths, v \in Values(tkind) : AddData(key, v)

\* key in tracker, and tracker[key]
Lookup(key) ==
    /\ trackerOp' = "lookup"
    /\ lastKey' = key
    /\ before' = tracker
    /\ ret' = [contains |-> contains(tracker, <<>>, key), get |-> getitem(tracker, <<>>, key)]
    /\ repeated' = FALSE
    /\ lastErr' = "none"
    /\ lastVal' = NoValue(tkind)
    /\ UNCHANGED <<tracker, tkind, longest>>
    /\ UNCHANGED <<loggerVars, runVars>>

-----------------------------------------------------------------------------
(* SpecLongest: the leaderboard of runtime trackers of up to MaxLongDays   *)
(* days                                                                    *)

MaxLongDays == 12   \* days of the year that have data in SpecLongest

\* the runtime of part p of day d under value pattern k: all different,
\* all equal, or mixed
LongValue(k, d, p) ==
    CASE k = 1 -> d * 100 + p
      [] k = 2 -> 500
      [] k = 3 -> (((d * 7) % 5) + 1) * 100

LongShapes ==
    {[days |-> n, parts |-> ps, pattern |-> k] :
        n \in 0..MaxLongDays, ps \in {{1}, {1, 2}}, k \in 1..3}

\* the tracker after add_data((Python, 2023, d, p), LongValue) for the days
\* 1..n in ascending order
RECURSIVE LongTree(_, _, _)
LongTree(n, ps, k) ==
    IF n = 0 THEN EmptyTree
    ELSE Then(LongTree(n - 1, ps, k), LAMBDA t :
         Then(add_data("runtimes", t, <<>>, <<"Python", 2023, n, 1>>, LongValue(k, n, 1)).tree,
              LAMBDA t1 :
                  IF 2 \in ps
                  THEN add_data("runtimes", t1, <<>>, <<"Python", 2023, n, 2>>,
                                LongValue(k, n, 2)).tree
                  ELSE t1))

-----------------------------------------------------------------------------
(* DataTracker.__call__: the tables of a tracker and their printed order   *)

\* Language.__str__: the lang field the subclass passes to Language.__init__
Str(l) == CASE l = "Python" -> "python" [] l = "Rust" -> "rust"

\* str.title() of a key of the persisted document, of a key segment or of
\* an attribute name: the first letter of every word in upper case
Title(k) ==
    CASE k = "python" -> "Python"
      [] k = "rust" -> "Rust"
      [] k = "total" -> "Total"
      [] k = "average" -> "Average"
      [] k = "time" -> "Time"
      [] k = "longest" -> "Longest"
      [] OTHER -> k

Digit == <<"0", "1", "2", "3", "4", "5", "6", "7", "8", "9">>

\* str(n) of a non-negative int
RECURSIVE IntStr(_)
IntStr(n) == IF n < 10 THEN Digit[n + 1] ELSE IntStr(n \div 10) \o Digit[(n % 10) + 1]

\* the numbers whose str occurs as a cell or as a table name
Numerals == (0..31) \cup Years

NumeralStrs == {IntStr(n) : n \in Numerals}

\* str.isnumeric()
IsNumeric(s) == s \in NumeralStrs

\* int(s) of a numeric str
Num == [s \in NumeralStrs |-> CHOOSE n \in Numerals : IntStr(n) = s]

RECURSIVE Pow10(_)
Pow10(n) == IF n = 0 THEN 1 ELSE 10 * Pow10(n - 1)

\* the words that occur as a cell or as a table name, in the order of str
Words == <<"Average", "Data", "Language Data", "Longest", "Python", "Rust",
           "Time", "Total", "Year Data">>

WordRank(s) == CHOOSE i \in 1..Len(Words) : Words[i] = s

\* a < b on two str: code point by code point, a digit before a letter
StrLess(a, b) ==
    IF a = b THEN FALSE
    ELSE IF a = "" \/ b = "" THEN a = ""
    ELSE IF IsNumeric(a) /\ IsNumeric(b)
         THEN LET la == Len(a)
                  lb == Len(b)
                  xa == Num[a] * Pow10(IF lb > la THEN lb - la ELSE 0)
                  xb == Num[b] * Pow10(IF la > lb THEN la - lb ELSE 0)
              IN  xa < xb \/ (xa = xb /\ la < lb)
    ELSE IF IsNumeric(a) \/ IsNumeric(b) THEN IsNumeric(a)
    ELSE WordRank(a) < WordRank(b)

\* (len(a), a) < (len(b), b)
CellLess(a, b) == Len(a) < Len(b) \/ (Len(a) = Len(b) /\ StrLess(a, b))

\* str(k) of every segment of a key path: a language prints its name
StrPath(p) == [i \in 1..Len(p) |-> IF i = 1 THEN Str(p[1]) ELSE IntStr(p[i])]

\* col_name, tab_name, *row_indecies = map(str_title, [...])
Titled(e) ==
    [e EXCEPT !.col = Title(@), !.tab = Title(@), !.row = [i \in 1..Len(@) |-> Title(@[i])]]

IndexLabels == <<"Language", "Year", "Day", "Part">>

\* the layout tuples (add_ix_label, reduce_row_indecies, no_dividers,
\* row_ix_slice); a slice is written [start, stop], stop 0 standing for None
Layout(add, reduce, nodiv, start, stop) ==
    [add_ix_label |-> add, reduce_row_indecies |-> reduce, no_dividers |-> nodiv,
     row_ix_slice |-> [start |-> start, stop |-> stop]]

\* col_name, tab_name, *row_indecies = keys[-3:] + [k]
LastThree(keys, k) ==
    LET tl == SubSeq(keys, IF Len(keys) > 3 THEN Len(keys) - 2 ELSE 1, Len(keys)) \o <<k>>
    IN  [col |-> tl[1], tab |-> tl[2], row |-> SubSeq(tl, 3, Len(tl))]

\* (mutant) the average of every level suppressed
AverageSkippedAtEveryDepth(keys, k) == k = "average"

\* if len(keys) == 3 and k == "average": return
AverageSkipped(keys, k) == Len(keys) = 3 /\ k = "average"

\* RuntimeTracker.keys_to_indecies(keys + [k]) for a k that is no tuple
\* and keys without "longest"; col "" stands for the None it returns
RuntimeKeysToIndecies(keys, k) ==
    IF Len(keys) < 2
    THEN [col |-> k, tab |-> "Data", row |-> keys,
          fmt |-> Layout(TRUE, TRUE, FALSE, 0, 0), num_keys |-> Len(keys)]
    ELSE IF AverageSkipped(keys, k)
    THEN [col |-> "", tab |-> "", row |-> <<>>,
          fmt |-> Layout(TRUE, TRUE, FALSE, 0, 0), num_keys |-> Len(keys)]
    ELSE [col |-> LastThree(keys, k).col, tab |-> LastThree(keys, k).tab,
          row |-> LastThree(keys, k).row,
          fmt |-> Layout(TRUE, TRUE, FALSE, 0, 0), num_keys |-> Len(keys)]

\* RuntimeTracker.keys_to_indecies(["longest", (i, *path)])
LongestKeysToIndecies(i, path) ==
    [col |-> "time", tab |-> "longest", row |-> <<IntStr(i)>> \o StrPath(path),
     fmt |-> Layout(FALSE, FALSE, TRUE, 1, 0), num_keys |-> 0]

\* (mutant) every answer bucketed into the table "Data"
AnswerAllInData(keys, k) ==
    [col |-> "Ans", tab |-> "Data", row |-> keys \o <<k>>,
     fmt |-> Layout(FALSE, TRUE, FALSE, 0, 0), num_keys |-> Len(keys)]

\* AnswerTracker.keys_to_indecies(keys + [k]) for a k that is no tuple
AnswerKeysToIndecies(keys, k) ==
    IF Len(keys) < 2
    THEN [col |-> k, tab |-> "Data", row |-> keys,
          fmt |-> Layout(TRUE, TRUE, FALSE, 0, -1), num_keys |-> Len(keys)]
    ELSE [col |-> LastThree(keys, k).col, tab |-> LastThree(keys, k).tab,
          row |-> LastThree(keys, k).row,
          fmt |-> Layout(TRUE, TRUE, FALSE, 0, -1), num_keys |-> Len(keys)]

\* str(k) of a tuple of strings
RECURSIVE Joined(_)
Joined(k) ==
    IF k = <<>> THEN ""
    ELSE IF Len(k) = 1 THEN "'" \o k[1] \o "'"
    ELSE "'" \o k[1] \o "', " \o Joined(Tail(k))

TupleStr(k) == "(" \o Joined(k) \o (IF Len(k) = 1 THEN ",)" ELSE ")")

\* what a call of keys_to_indecies yields: the exception it raised, or the
\* key_data it returned (col "" standing for None)
Returned(key_data) == [err |-> "none", key_data |-> key_data]

Raised(err) ==
    [err |-> err,
     key_data |-> [col |-> "", tab |-> "", row |-> <<>>,
                   fmt |-> Layout(TRUE, TRUE, FALSE, 0, 0), num_keys |-> 0]]

None == Raised("none")

\* RuntimeTracker.keys_to_indecies(keys + [k]); tuple tells isinstance(k, tuple)
RuntimeResolve(keys, k, tuple) ==
    IF \E i \in 1..Len(keys) : keys[i] = "longest"
    THEN IF tuple
         THEN Returned([col |-> "time", tab |-> keys[Len(keys)], row |-> k,
                        fmt |-> Layout(FALSE, FALSE, TRUE, 1, 0), num_keys |-> 0])
         ELSE None
    ELSE IF ~tuple THEN Returned(RuntimeKeysToIndecies(keys, k))
    ELSE IF Len(keys) < 2
    THEN Returned([col |-> TupleStr(k), tab |-> "Data", row |-> keys,
                   fmt |-> Layout(FALSE, FALSE, TRUE, 1, 0), num_keys |-> 0])
    ELSE Returned([col |-> LastThree(keys, k).col, tab |-> LastThree(keys, k).tab,
                   row |-> LastThree(keys, k).row,
                   fmt |-> Layout(FALSE, FALSE, TRUE, 1, 0), num_keys |-> 0])

\* AnswerTracker.keys_to_indecies(keys + [k])
AnswerResolve(keys, k, tuple) ==
    IF ~tuple THEN Returned(AnswerKeysToIndecies(keys, k))
    ELSE IF k = <<>> THEN Raised("ValueError")
    ELSE IF keys = <<>> THEN Raised("IndexError")
    ELSE Returned([col |-> Head(k), tab |-> keys[Len(keys)], row |-> Tail(k),
                   fmt |-> Layout(FALSE, FALSE, TRUE, 0, -1), num_keys |-> Len(keys)])

keys_to_indecies(tk, path) ==
    IF tk = "runtimes" THEN RuntimeResolve(path.keys, path.k, path.tuple)
    ELSE AnswerResolve(path.keys, path.k, path.tuple)

\* the order in which dict_to_table meets the key paths (keys sorted by
\* their str at every level); it decides only the order of rows that the
\* sort key of the row loop leaves tied
VisitRank(p) ==
    IF Len(p) > 3 THEN PathRank(Prefix(p, 3)) * 100 + p[4] ELSE PathRank(p) * 100

\* a runtime as the tables hold it: a float, written as a fraction
Float(v) == <<v, 1>>

\* get_tables: one entry per scalar met in vars(self), the attributes total
\* and average of every RuntimeTracker included
get_tables(tk, t, lng) ==
    LET leaves == {p \in DOMAIN t : t[p].leaf}
        inner  == {p \in DOMAIN t : ~t[p].leaf}
        ofLeaf(p) == LET s == StrPath(p)
                         ks == SubSeq(s, 1, Len(s) - 1)
                     IN  IF tk = "runtimes" THEN RuntimeKeysToIndecies(ks, s[Len(s)])
                         ELSE AnswerKeysToIndecies(ks, s[Len(s)])
    IN  {e \in
            {Titled(ofLeaf(p)) @@ [visit |-> VisitRank(p),
                                    val |-> IF tk = "runtimes" THEN Float(t[p].value)
                                            ELSE t[p].value] : p \in leaves}
            \cup (IF tk = "runtimes"
                  THEN {Titled(RuntimeKeysToIndecies(StrPath(p), "total"))
                            @@ [visit |-> 0, val |-> Float(t[p].total)] : p \in inner}
                       \cup {Titled(RuntimeKeysToIndecies(StrPath(p), "average"))
                                @@ [visit |-> 0, val |-> t[p].average] : p \in inner}
                       \cup {Titled(LongestKeysToIndecies(i - 1, lng.entries[i].path))
                                @@ [visit |-> 0, val |-> Float(lng.entries[i].value)] :
                                    i \in 1..Len(lng.entries)}
                  ELSE {}) :
         e.tab # ""}

\* tab_name = f"{index_labels[num_keys]} {tab_name}" when the layout asks
\* for the label and the table holds a path of fewer than two keys
TableName(es) ==
    LET e == CHOOSE x \in es : TRUE
        n == CHOOSE m \in {x.num_keys : x \in es} : \A x \in es : m <= x.num_keys
    IN  IF e.fmt.add_ix_label /\ n < 2 THEN IndexLabels[n + 1] \o " " \o e.tab ELSE e.tab

\* slice(*row_ix_slice.indices(n)) as [start, stop]
SliceIndices(sl, n) ==
    [start |-> IF sl.start < n THEN sl.start ELSE n,
     stop  |-> IF sl.stop = 0 THEN n ELSE IF n + sl.stop > 0 THEN n + sl.stop ELSE 0]

\* the key the rows are sorted by: (len, str) of the first n components,
\* (0, "") where the row is shorter
RowLess(a, b, n) ==
    \E i \in 1..n :
        /\ \A j \in 1..(i - 1) :
              (IF Len(a) >= j THEN a[j] ELSE "") = (IF Len(b) >= j THEN b[j] ELSE "")
        /\ CellLess(IF Len(a) >= i THEN a[i] ELSE "", IF Len(b) >= i THEN b[i] ELSE "")

RowTied(a, b, n) == ~RowLess(a, b, n) /\ ~RowLess(b, a, n)

\* sorted(table_data.items(), key=...): ascending and stable
RECURSIVE SortedRows(_, _)
SortedRows(R, n) ==
    IF R = {} THEN <<>>
    ELSE LET m == CHOOSE r \in R : \A o \in R :
                      \/ RowLess(r.row, o.row, n)
                      \/ (RowTied(r.row, o.row, n) /\ r.visit <= o.visit)
         IN  <<m.row>> \o SortedRows(R \ {m}, n)

\* (mutant) a divider in every style
DividerInEveryStyle(style) == TRUE

\* use_divider = style not in ["MARKDOWN", "DOUBLE_BORDER"]
UseDivider(style) == style \notin {"MARKDOWN", "DOUBLE_BORDER"}

\* reduced_row_indecies: a cell is blanked when reduce_row_indecies is set
\* and the row before holds the same index at the same position
Reduced(fmt, row, p) ==
    [i \in 1..Len(row) |->
        IF ~fmt.reduce_row_indecies \/ i > Len(p) \/ row[i] # p[i] THEN row[i] ELSE ""]

Blanks(n) == [i \in 1..n |-> ""]

\* one pass of the row loop: acc holds the rows appended so far and
\* p_row_indecies
RowStep(acc, row, fmt, sl, shown, style) ==
    LET cut == SubSeq(row, sl.start + 1, IF sl.stop < Len(row) THEN sl.stop ELSE Len(row))
        red == Reduced(fmt, cut, acc.p)
        n   == Len(acc.rows)
        div == ~fmt.no_dividers /\ acc.p # <<>> /\ red[1] # ""
        was == IF div THEN [acc.rows EXCEPT ![n].divider = UseDivider(style)] ELSE acc.rows
    IN  IF red = <<>> THEN acc
        ELSE [rows |-> Append(was, [cells |-> red \o Blanks(IF shown > Len(row)
                                                             THEN shown - Len(row) ELSE 0),
                                    key |-> row, divider |-> FALSE]),
              p |-> row]

RECURSIVE RowLoop(_, _, _, _, _, _)
RowLoop(acc, order, fmt, sl, shown, style) ==
    IF order = <<>> THEN acc.rows
    ELSE Then(RowStep(acc, Head(order), fmt, sl, shown, style), LAMBDA a :
             RowLoop(a, Tail(order), fmt, sl, shown, style))

\* sorted(names)
RECURSIVE SortedNames(_)
SortedNames(S) ==
    IF S = {} THEN <<>>
    ELSE LET m == CHOOSE a \in S : \A b \in S : a = b \/ StrLess(a, b)
         IN  <<m>> \o SortedNames(S \ {m})

\* [row_data.get(col_name, "") for col_name in field_names]
RowData(es, row, field_names) ==
    [c \in 1..Len(field_names) |->
        IF \E e \in es : e.row = row /\ e.col = field_names[c]
        THEN (CHOOSE e \in es : e.row = row /\ e.col = field_names[c]).val
        ELSE ""]

\* one table of out_tables: its column names, and its rows in print order,
\* each with its index cells, its data cells and its divider mark
Table(es, style) ==
    LET fmt   == (CHOOSE x \in es : TRUE).fmt
        keys  == {x.row : x \in es}
        most  == CHOOSE m \in {Len(r) : r \in keys} : \A r \in keys : Len(r) <= m
        sl    == SliceIndices(fmt.row_ix_slice, most)
        shown == IF most < sl.stop - sl.start THEN most ELSE sl.stop - sl.start
        first(r) == CHOOSE v \in {x.visit : x \in {y \in es : y.row = r}} :
                        \A x \in {y \in es : y.row = r} : v <= x.visit
    IN  Then(SortedNames({x.col : x \in es}), LAMBDA field_names :
        Then(RowLoop([rows |-> <<>>, p |-> <<>>],
                     SortedRows({[row |-> r, visit |-> first(r)] : r \in keys}, shown),
                     fmt, sl, shown, style), LAMBDA rows :
            [fmt |-> fmt,
             field_names |-> field_names,
             rows |-> [i \in 1..Len(rows) |->
                          [cells |-> rows[i].cells, key |-> rows[i].key,
                           divider |-> rows[i].divider,
                           data |-> RowData(es, rows[i].key, field_names)]]]))

\* the printing order: extra_tables + year_tables for MARKDOWN,
\* year_tables + extra_tables for every other style
PrintOrder(names, style) ==
    LET extra_tables == SortedNames({x \in names : ~IsNumeric(x)})
        year_tables  == SortedNames({x \in names : IsNumeric(x)})
    IN  IF style = "MARKDOWN" THEN extra_tables \o year_tables
        ELSE year_tables \o extra_tables

\* what return_string holds in place of tables: "No data to display" is
\* written in the MARKDOWN branch only, when out_tables is empty
NoData(names, style) ==
    IF style = "MARKDOWN" /\ names = {} THEN "No data to display" ELSE ""

\* DataTracker.__call__(index_labels, style)
RenderTables(tk, t, lng, style) ==
    Then(get_tables(tk, t, lng), LAMBDA es :
    Then([b \in {x.tab : x \in es} |-> TableName({x \in es : x.tab = b})], LAMBDA name :
    Then([n \in {name[b] : b \in DOMAIN name} |-> Table({x \in es : name[x.tab] = n}, style)],
         LAMBDA out :
             [style |-> style, order |-> PrintOrder(DOMAIN out, style), tables |-> out,
              no_data |-> NoData(DOMAIN out, style)])))

\* tracker(index_labels, style): RuntimeTracker.__call__ recomputes longest
\* and then renders; AnswerTracker renders only
Render(style) ==
    /\ trackerOp' = "render"
    /\ before' = tracker
    /\ \E lng \in {IF tkind = "runtimes" THEN LongestAtCall(tracker, longest) ELSE longest} :
          /\ longest' = lng
          /\ ret' = RenderTables(tkind, tracker, lng, style)
    /\ repeated' = FALSE
    /\ lastErr' = "none"
    /\ lastKey' = <<>>
    /\ lastVal' = NoValue(tkind)
    /\ UNCHANGED <<tracker, tkind>>
    /\ UNCHANGED <<loggerVars, runVars>>

-----------------------------------------------------------------------------
(* Logger: the pending queue and the flush (Loggers/__init__.py)           *)
(* The handlers are functions of the logger's state s, a record of the     *)
(* logger variables.                                                       *)

MaxEntries == 4     \* add_new_data calls in a behaviour of SpecHub
MaxFlushes == 2     \* Logger.log calls in a behaviour of SpecHub

NoKwargs == [k \in {} |-> 0]
NoLeaves == [k \in {} |-> 0]
NoFile == [exists |-> FALSE, leaves |-> NoLeaves]
NoCache == [pages |-> NoLeaves, answers |-> NoLeaves]

Cur ==
    [data |-> data, data_incorrect |-> data_incorrect, changed_data |-> changed_data,
     changed_incorrect |-> changed_incorrect, correct |-> correct, ran |-> ran,
     min_time |-> min_time, max_time |-> max_time, new_data |-> new_data,
     post_load |-> post_load, on_log |-> on_log, pre_exit |-> pre_exit,
     on_exit |-> on_exit, post_exit |-> post_exit, file |-> file, known |-> known,
     cache |-> cache,
     nextId |-> nextId, delivered |-> delivered, flushed |-> flushed, asked |-> asked]

Assign(s) ==
    /\ data' = s.data
    /\ data_incorrect' = s.data_incorrect
    /\ changed_data' = s.changed_data
    /\ changed_incorrect' = s.changed_incorrect
    /\ correct' = s.correct
    /\ ran' = s.ran
    /\ min_time' = s.min_time
    /\ max_time' = s.max_time
    /\ new_data' = s.new_data
    /\ post_load' = s.post_load
    /\ on_log' = s.on_log
    /\ pre_exit' = s.pre_exit
    /\ on_exit' = s.on_exit
    /\ post_exit' = s.post_exit
    /\ file' = s.file
    /\ known' = s.known
    /\ cache' = s.cache
    /\ nextId' = s.nextId
    /\ delivered' = s.delivered
    /\ flushed' = s.flushed
    /\ asked' = s.asked

\* the sort key of Logger.log: tuple(map(len, (args, kwargs)))
SortKey(e) == <<Len(e.args), Cardinality(DOMAIN e.kwargs)>>

KeyGE(a, b) == a[1] > b[1] \/ (a[1] = b[1] /\ a[2] >= b[2])

\* the stable insertion of e into a queue sorted by descending key
InsertDesc(q, e) ==
    LET n == Cardinality({i \in 1..Len(q) : KeyGE(SortKey(q[i]), SortKey(e))})
    IN  SubSeq(q, 1, n) \o <<e>> \o SubSeq(q, n + 1, Len(q))

\* (mutant) the queue replayed in the order it was filled
Unsorted(q) == q

\* sorted(self.new_data, key=..., reverse=True): descending, stable
RECURSIVE SortedDesc(_)
SortedDesc(q) ==
    IF q = <<>> THEN <<>>
    ELSE InsertDesc(SortedDesc(SubSeq(q, 1, Len(q) - 1)), q[Len(q)])

\* the keyword payload one entry is delivered with: the caller's kwargs for
\* every key the entry does not set, and event defaulting to "on_log"
MergedKwargs(entryKw, callKw) ==
    LET merged == [k \in DOMAIN entryKw \cup DOMAIN callKw |->
                      IF k \in DOMAIN entryKw THEN entryKw[k] ELSE callKw[k]]
    IN  IF "event" \in DOMAIN merged THEN merged
        ELSE [k \in DOMAIN merged \cup {"event"} |->
                 IF k = "event" THEN "on_log" ELSE merged[k]]

\* the invocations func(*new_args, from_logger=self, **new_kwargs) of one
\* entry, one per callable, in list order
Invocations(e, callables, callKw, flushNo) ==
    [c \in 1..Len(callables) |->
        [flush |-> flushNo, func |-> callables[c], id |-> e.id,
         args |-> e.args, kwargs |-> MergedKwargs(e.kwargs, callKw)]]

RECURSIVE Replay(_, _, _, _)
Replay(order, callables, callKw, flushNo) ==
    IF order = <<>> THEN <<>>
    ELSE Invocations(Head(order), callables, callKw, flushNo)
            \o Replay(Tail(order), callables, callKw, flushNo)

\* (mutant) the queue kept after the flush
QueueKept(q) == q

\* self.new_data = [] at the end of Logger.log
QueueAfterLog(q) == <<>>

Ids(q) == [i \in 1..Len(q) |-> q[i].id]

\* Logger.log(callables=..., **callKw): the base flush
Log(s, callables, callKw) ==
    Then(SortedDesc(s.new_data), LAMBDA order :
        [s EXCEPT !.delivered = @ \o Replay(order, callables, callKw, Len(s.flushed) + 1),
                  !.flushed = Append(@, [callables |-> callables, ids |-> Ids(order)]),
                  !.new_data = QueueAfterLog(@)])

\* the entries a flush begun inside a callable of a running flush takes:
\* Logger.log has no in-progress flag, and the queue is emptied only after
\* the last callable returns, so the nested call sorts the whole queue again
NestedOrder(order, callables) == order

\* Logger.log() whose first invocation calls Logger.log() on the same logger:
\* the nested flush runs to its end inside that invocation, then the outer
\* loop goes on over its own sorted copy and empties the queue a second time
LogNested(s, callables) ==
    Then(SortedDesc(s.new_data), LAMBDA order :
    Then(Replay(order, callables, NoKwargs, Len(s.flushed) + 1), LAMBDA outer :
    Then(NestedOrder(order, callables), LAMBDA inner :
        [s EXCEPT !.delivered = @ \o <<Head(outer)>>
                                  \o Replay(inner, s.on_log, NoKwargs, Len(s.flushed) + 2)
                                  \o Tail(outer),
                  !.flushed = @ \o <<[callables |-> callables, ids |-> Ids(order)],
                                     [callables |-> s.on_log, ids |-> Ids(inner)]>>,
                  !.new_data = QueueAfterLog(QueueAfterLog(@))])))

\* Logger.add_new_data(*args, **kwargs)
add_new_data(s, args, kwargs) ==
    [s EXCEPT !.new_data = Append(@, [id |-> s.nextId, args |-> args, kwargs |-> kwargs]),
              !.nextId = @ + 1]

\* Logger.log() whose first invocation calls add_new_data on the same logger:
\* the loop runs over the sorted copy made before, the entry is appended to
\* self.new_data, and self.new_data = [] follows the loop
LogEnqueuing(s, callables, args, kwargs) ==
    Then(SortedDesc(s.new_data), LAMBDA order :
    Then(add_new_data(s, args, kwargs), LAMBDA s1 :
        [s1 EXCEPT !.delivered = @ \o Replay(order, callables, NoKwargs, Len(s.flushed) + 1),
                   !.flushed = Append(@, [callables |-> callables, ids |-> Ids(order)]),
                   !.new_data = QueueAfterLog(@)]))

-----------------------------------------------------------------------------
(* SpecHub: one Logger's queue under add_new_data and log calls            *)

\* the entries a producer enqueues, in the shapes RuntimeLogger.log_part uses
EntryKinds == {"part", "day", "day2", "avg"}

EntryArgs(k) ==
    CASE k = "part" -> <<2023, 1, 1, "Python">>
      [] k = "day"  -> <<2023, 1, "Python">>
      [] k = "day2" -> <<2023, 2, "Python">>
      [] k = "avg"  -> <<2023, "Python", "avg">>

EntryKwargs(k) ==
    CASE k = "part" -> [time |-> 500]
      [] k = "day"  -> [time |-> 2000, max_time |-> 2000]
      [] k = "day2" -> [time |-> 1500, max_time |-> 1500]
      [] k = "avg"  -> [time |-> 1000]

\* a constructed Logger of the given kind (the dataclass defaults)
InitLogger ==
    /\ data = EmptyTree
    /\ data_incorrect = NoLeaves
    /\ changed_data = EmptyTree
    /\ changed_incorrect = NoLeaves
    /\ correct = EmptyTree
    /\ ran = {}
    /\ min_time = NoLeaves
    /\ max_time = NoLeaves
    /\ new_data = <<>>
    /\ post_load = <<>>
    /\ on_log = <<>>
    /\ pre_exit = <<>>
    /\ on_exit = <<>>
    /\ post_exit = <<>>
    /\ nextId = 1
    /\ delivered = <<>>
    /\ flushed = <<>>
    /\ asked = <<>>

InitRun ==
    /\ phase = "new"
    /\ session = 1
    /\ runs = 0
    /\ hubOp = "init"
    /\ opFrom = 0
    /\ exitRet = "none"
    /\ loggerExits = 0
    /\ viewerExits = 0
    /\ saved = [written |-> FALSE, leaves |-> NoLeaves, incorrect |-> NoLeaves]

InitIdle ==
    /\ InitLogger
    /\ InitRun
    /\ kind = "runtimes"
    /\ cfg = [no_load |-> FALSE, no_save |-> FALSE]
    /\ file = NoFile
    /\ known = {}
    /\ cache = NoCache

\* Viewer.attach_viewer: the viewer's methods appended to the logger's lists
Attached(s) ==
    [s EXCEPT !.post_load = <<"start_viewer">>, !.on_log = <<"view", "view_table">>,
              !.pre_exit = <<"start_viewer">>, !.on_exit = <<"write">>,
              !.post_exit = <<"view_table">>]

AttachViewer ==
    /\ hubOp = "init"
    /\ \E s \in {Attached(Cur)} : Assign(s)
    /\ hubOp' = "attach_viewer"
    /\ UNCHANGED <<kind, cfg, phase, session, runs, opFrom, exitRet, loggerExits,
                   viewerExits, saved>>
    /\ UNCHANGED trackerVars

AddNewData(k) ==
    /\ hubOp # "init"
    /\ nextId <= MaxEntries
    /\ \E s \in {add_new_data(Cur, EntryArgs(k), EntryKwargs(k))} : Assign(s)
    /\ hubOp' = "add_new_data"
    /\ UNCHANGED <<kind, cfg, phase, session, runs, opFrom, exitRet, loggerExits,
                   viewerExits, saved>>
    /\ UNCHANGED trackerVars

\* Logger.log(): callables default to self.on_log
LogOnLog ==
    /\ hubOp # "init"
    /\ Len(flushed) < MaxFlushes
    /\ \E s \in {Log(Cur, on_log, NoKwargs)} : Assign(s)
    /\ hubOp' = "log"
    /\ opFrom' = Len(delivered)
    /\ UNCHANGED <<kind, cfg, phase, session, runs, exitRet, loggerExits, viewerExits, saved>>
    /\ UNCHANGED trackerVars

\* Logger.log(log_all=True, callables=self.on_exit)
LogOnExit ==
    /\ hubOp # "init"
    /\ Len(flushed) < MaxFlushes
    /\ \E s \in {Log(Cur, on_exit, [log_all |-> TRUE])} : Assign(s)
    /\ hubOp' = "log"
    /\ opFrom' = Len(delivered)
    /\ UNCHANGED <<kind, cfg, phase, session, runs, exitRet, loggerExits, viewerExits, saved>>
    /\ UNCHANGED trackerVars

\* Logger.log() with an on_log callable that flushes the same logger again
LogReentrant ==
    /\ hubOp # "init"
    /\ on_log # <<>>
    /\ new_data # <<>>
    /\ Len(flushed) + 1 < MaxFlushes
    /\ \E s \in {LogNested(Cur, on_log)} : Assign(s)
    /\ hubOp' = "log_reentrant"
    /\ opFrom' = Len(delivered)
    /\ UNCHANGED <<kind, cfg, phase, session, runs, exitRet, loggerExits, viewerExits, saved>>
    /\ UNCHANGED trackerVars

\* Logger.log() with an on_log callable that enqueues an entry
LogEnqueues(k) ==
    /\ hubOp # "init"
    /\ on_log # <<>>
    /\ new_data # <<>>
    /\ nextId <= MaxEntries
    /\ Len(flushed) < MaxFlushes
    /\ \E s \in {LogEnqueuing(Cur, on_log, EntryArgs(k), EntryKwargs(k))} : Assign(s)
    /\ hubOp' = "log_enqueue"
    /\ opFrom' = Len(delivered)
    /\ UNCHANGED <<kind, cfg, phase, session, runs, exitRet, loggerExits, viewerExits, saved>>
    /\ UNCHANGED trackerVars

NextHub ==
    \/ AttachViewer
    \/ \E k \in EntryKinds : AddNewData(k)
    \/ LogOnLog
    \/ LogOnExit

-----------------------------------------------------------------------------
(* The sinks: RuntimeLogger and AnswerLogger (log_part, log, load, save)   *)

MaxRuns == 2        \* Language.add_part calls of the runs in a behaviour of SpecSink
MaxSessions == 2    \* processes in a behaviour of SpecSink

DaysPerYear == 25   \* len(t) // 2 == 25: every day of the year has both parts
LastDay == 25       \* (day, part) != (25, 2): the last puzzle has no second answer
LastPart == 2

\* the order in which LANGS iterates (the sorted file names of Languages/)
LangOrder == <<"Python", "Rust">>


\* the order of str on the persisted language names
StrRank(k) == CASE k = "python" -> 1 [] k = "rust" -> 2

SetKey(f, k, v) == [x \in DOMAIN f \cup {k} |-> IF x = k THEN v ELSE f[x]]

MapSeq(q, f) == [i \in 1..Len(q) |-> f[q[i]]]

\* sorted(S) for a set S ordered by the integer rank[x]
RECURSIVE SortBy(_, _)
SortBy(S, rank) ==
    IF S = {} THEN <<>>
    ELSE LET m == CHOOSE x \in S : \A y \in S : rank[x] <= rank[y]
         IN  <<m>> \o SortBy(S \ {m}, rank)

SortedInts(S) == SortBy(S, [x \in S |-> x])

\* the leaves of a tracker: path -> value
Leaves(t) == [p \in {q \in DOMAIN t : t[q].leaf} |-> t[p].value]

\* the answer the site accepts for every puzzle of the model
Truth == "42"

\* web.get_answers: the parts whose answer the (cached) puzzle page shows
get_answers(s, y, d) ==
    LET url == <<y, d>> IN
    IF url \in DOMAIN s.cache.pages
    THEN [s |-> s, parts |-> s.cache.pages[url]]
    ELSE LET parts == {p \in Parts : <<y, d, p>> \in s.known}
         IN  [s |-> [s EXCEPT !.cache.pages = SetKey(@, url, parts)], parts |-> parts]

\* web.submit_answer: the (cached) response matches "That's the right answer"
\* or "You don't seem to be solving the right level"
submit_answer(s, y, d, p, ans) ==
    LET url == <<y, d>> IN
    IF url \in DOMAIN s.cache.answers
    THEN [s |-> s, ok |-> s.cache.answers[url]]
    ELSE LET wrongLevel == <<y, d, p>> \in s.known
                              \/ (p > 1 /\ <<y, d, p - 1>> \notin s.known)
             right == ~wrongLevel /\ ans = Truth
             ok == wrongLevel \/ right
         IN  [s |-> [s EXCEPT !.known = IF right THEN @ \cup {<<y, d, p>>} ELSE @,
                              !.cache.answers = SetKey(@, url, ok)],
              ok |-> ok]

\* RuntimeLogger.log_part; len(args) == 3: the part itself
RuntimePartEntry(s, y, d, p, l) ==
    LET t == s.data[<<l, y, d, p>>].value
        isMin == l \notin DOMAIN s.min_time \/ t < s.min_time[l]
    IN  add_new_data([s EXCEPT !.min_time = IF isMin THEN SetKey(@, l, t) ELSE @],
                     <<y, d, p, l>>,
                     IF isMin THEN [time |-> t, min_time |-> t] ELSE [time |-> t])

\* len(args) == 2 of RuntimeLogger.log_part: a day that has both parts
RuntimeDayEntry(s, y, d, l) ==
    LET tot == s.data[<<l, y, d>>].total
        isMax == tot > (IF l \in DOMAIN s.max_time THEN s.max_time[l] ELSE 0)
    IN  IF Size(s.data, <<l, y, d>>) # 2 THEN s
        ELSE add_new_data([s EXCEPT !.max_time = IF isMax THEN SetKey(@, l, tot) ELSE @],
                          <<y, d, l>>,
                          IF isMax THEN [time |-> tot, max_time |-> tot] ELSE [time |-> tot])

\* len(args) == 1 of RuntimeLogger.log_part: the year's average and total
RuntimeAvgEntry(s, y, l) ==
    IF Size(s.data, <<l, y>>) \div 2 > 1
    THEN add_new_data(s, <<y, l, "avg">>, [time |-> s.data[<<l, y>>].average])
    ELSE s

RuntimeTotEntry(s, y, l) ==
    IF Size(s.data, <<l, y>>) \div 2 = DaysPerYear
    THEN add_new_data(s, <<y, l, "tot">>, [time |-> s.data[<<l, y>>].total])
    ELSE s

RuntimeLogPart(s, y, d, p, l, time, event) ==
    LET key == <<l, y, d, p>>
        s1 == IF event = "on_log"
              THEN [s EXCEPT !.changed_data = add_data("runtimes", @, <<>>, key, time).tree,
                             !.data = add_data("runtimes", @, <<>>, key, time).tree]
              ELSE [s EXCEPT !.data = add_data("runtimes", @, <<>>, key, time).tree]
    IN  Then(s1, LAMBDA a :
        Then(RuntimePartEntry(a, y, d, p, l), LAMBDA b :
        Then(RuntimeDayEntry(b, y, d, l), LAMBDA c :
        Then(RuntimeAvgEntry(c, y, l), LAMBDA e : RuntimeTotEntry(e, y, l)))))

\* (history) one call to the site on behalf of a puzzle part, and whether the
\* correct tracker held the part when the call was made
Ask(s, fn, ckey) ==
    [s EXCEPT !.asked = Append(@, [fn |-> fn, key |-> ckey,
                                   settled |-> Contains(s.correct, ckey)])]

\* (mutant) the correct tracker never consulted before the site is asked
NeverSettled(s, ckey) == FALSE

\* (year, day, part) in self.correct
Settled(s, ckey) == Contains(s.correct, ckey)

\* the correctness check of AnswerLogger.log_part
AnswerJudge(s, y, d, p, ans) ==
    LET ckey == <<y, d, p>>
        accept(a) == [s |-> [a EXCEPT !.correct = add_data("answers", @, <<>>, ckey, ans).tree],
                      incorrect |-> FALSE]
    IN  IF (d = LastDay /\ p = LastPart) \/ ans = ""
        THEN [s |-> s, incorrect |-> FALSE]
        ELSE IF Settled(s, ckey)
        THEN [s |-> s, incorrect |-> ans # s.correct[ckey].value]
        ELSE Then(get_answers(Ask(s, "get_answers", ckey), y, d), LAMBDA page :
                 IF p \in page.parts THEN accept(page.s)
                 ELSE Then(submit_answer(Ask(page.s, "submit_answer", ckey), y, d, p, ans),
                           LAMBDA sub :
                              IF sub.ok THEN accept(sub.s)
                              ELSE [s |-> sub.s, incorrect |-> TRUE]))

\* AnswerTracker.add_data(key, new_data=ans, incorrect=...) on a logger's
\* tracker: the leaf, and the shadow entry under "incorrect" when asked
AnswerAddData(t, shadow, key, ans, incorrect) ==
    [tree |-> add_data("answers", t, <<>>, key, ans).tree,
     shadow |-> IF incorrect /\ add_data("answers", t, <<>>, key, ans).err = "ok"
                THEN SetKey(shadow, key, PyStr(ans)) ELSE shadow]

\* AnswerLogger.log_part
AnswerLogPart(s, y, d, p, l, ans, event) ==
    LET key == <<l, y, d, p>>
        s1  == [s EXCEPT !.data = AnswerAddData(@, s.data_incorrect, key, ans, FALSE).tree,
                         !.asked = <<>>]
    IN  Then(s1, LAMBDA a :
        Then(AnswerJudge(a, y, d, p, ans), LAMBDA j :
            LET marked  == IF j.incorrect
                           THEN AnswerAddData(j.s.data, j.s.data_incorrect, key, ans, TRUE)
                           ELSE [tree |-> j.s.data, shadow |-> j.s.data_incorrect]
                changed == AnswerAddData(j.s.changed_data, j.s.changed_incorrect, key, ans,
                                         j.incorrect)
                s2 == [j.s EXCEPT !.data = marked.tree, !.data_incorrect = marked.shadow]
                s3 == IF event = "on_log"
                      THEN [s2 EXCEPT !.changed_data = changed.tree,
                                      !.changed_incorrect = changed.shadow]
                      ELSE s2
            IN  Then(s3, LAMBDA b : add_new_data(b, <<y, d, p, l>>, [ans |-> ans]))))

\* (mutant) the event of the call not forwarded to the flush
CallKwargsWithoutEvent(l, ans, time, event) == [ans |-> ans, time |-> time, lang |-> l]

\* the keyword arguments Language.add_part hands to Logger.log
CallKwargs(l, ans, time, event) ==
    IF event = "on_log" THEN [ans |-> ans, time |-> time, lang |-> l]
    ELSE [ans |-> ans, time |-> time, lang |-> l, event |-> event]

\* Language.add_part(year, day, part, ans=, time=, loggers=[self]): the day is
\* marked as ran, the subclass's log runs log_part and then the base flush
log_part(s, y, d, p, l, ans, time, event) ==
    LET s1 == [s EXCEPT !.ran = @ \cup {<<y, d>>}]
    IN  IF kind = "runtimes" THEN RuntimeLogPart(s1, y, d, p, l, time, event)
        ELSE AnswerLogPart(s1, y, d, p, l, ans, event)

add_part(s, y, d, p, l, ans, time, event) ==
    Then(log_part(s, y, d, p, l, ans, time, event), LAMBDA s1 :
        Log(s1, s1.on_log, CallKwargs(l, ans, time, event)))

\* Logger.runtime_days(): the sorted union of Language.ran, as a sequence
RECURSIVE runtime_days(_)
runtime_days(S) ==
    IF S = {} THEN <<>>
    ELSE LET m == CHOOSE a \in S : \A b \in S : a[1] < b[1] \/ (a[1] = b[1] /\ a[2] <= b[2])
         IN  <<m>> \o runtime_days(S \ {m})

\* the days of a year a language has data for among the days that ran
DaysIn(s, l, y) == {d \in Days : <<y, d>> \in s.ran /\ Contains(s.data, <<l, y, d>>)}

PartDays(s, l, y, p) == {d \in DaysIn(s, l, y) : Contains(s.data, <<l, y, d, p>>)}

YearsIn(s, l) == {y \in Years : DaysIn(s, l, y) # {}}

\* the parts of data[lang][year] in the order their dicts were created: by
\* the first day that has the part, then by the part
PartSeq(s, l, y) ==
    LET ps == {p \in Parts : PartDays(s, l, y, p) # {}}
        first == [p \in ps |-> CHOOSE d \in PartDays(s, l, y, p) :
                                   \A e \in PartDays(s, l, y, p) : d <= e]
    IN  SortBy(ps, [p \in ps |-> first[p] * (LastPart + 1) + p])

\* prep_dict_log on data[lang][year][part]
PartEntry(s, l, y, p, valueKey) ==
    LET x_data == SortedInts(PartDays(s, l, y, p))
        y_data == MapSeq(x_data, [d \in Days |-> s.data[<<l, y, d, p>>].value])
    IN  [args |-> <<y, x_data, p, l>>,
         kwargs |-> IF valueKey = "time" THEN [lang |-> l, time |-> y_data]
                    ELSE [lang |-> l, ans |-> y_data]]

\* prep_dict_log on data[lang][year]["combined"]
CombinedEntry(s, l, y, valueKey) ==
    IF valueKey = "time"
    THEN LET x_data == SortedInts({d \in DaysIn(s, l, y) : Size(s.data, <<l, y, d>>) = 2})
         IN  [args |-> <<y, x_data, l>>,
              kwargs |-> [lang |-> l,
                          time |-> MapSeq(x_data, [d \in Days |-> s.data[<<l, y, d>>].total])]]
    ELSE LET x_data == SortedInts(DaysIn(s, l, y))
         IN  [args |-> <<y, x_data, l>>,
              kwargs |-> [lang |-> l, ans |-> MapSeq(x_data, [d \in Days |-> ""])]]

YearEntries(s, l, y, valueKey) ==
    <<CombinedEntry(s, l, y, valueKey)>>
        \o MapSeq(PartSeq(s, l, y), [p \in Parts |-> PartEntry(s, l, y, p, valueKey)])

\* data[lang]["avg"] and data[lang]["tot"] of RuntimeLogger.log
AvgYears(s, l) == {y \in YearsIn(s, l) : Size(s.data, <<l, y>>) \div 2 > 1}
TotYears(s, l) == {y \in YearsIn(s, l) : Size(s.data, <<l, y>>) \div 2 = DaysPerYear}

AggEntry(s, l, ys, name) ==
    LET x_data == SortedInts(ys)
    IN  [args |-> <<x_data, l, name>>,
         kwargs |-> [lang |-> l,
                     time |-> MapSeq(x_data, [y \in Years |->
                                  IF name = "avg" THEN s.data[<<l, y>>].average
                                  ELSE s.data[<<l, y>>].total])]]

\* the entries of one language, in the order of the keys of data[lang]
RECURSIVE LangEntries(_, _, _, _)
LangEntries(s, l, ys, valueKey) ==
    IF ys = <<>> THEN <<>>
    ELSE LET y == Head(ys)
             isFirst(S) == y \in S /\ \A z \in S : y <= z
         IN  YearEntries(s, l, y, valueKey)
                \o (IF valueKey = "time" /\ isFirst(AvgYears(s, l))
                    THEN <<AggEntry(s, l, AvgYears(s, l), "avg")>> ELSE <<>>)
                \o (IF valueKey = "time" /\ isFirst(TotYears(s, l))
                    THEN <<AggEntry(s, l, TotYears(s, l), "tot")>> ELSE <<>>)
                \o LangEntries(s, l, Tail(ys), valueKey)

\* the languages in the order of the keys of data: LANGS order in
\* RuntimeLogger.log, first (year, day) then LANGS order in AnswerLogger.log
RECURSIVE FirstSeen(_, _, _)
FirstSeen(s, yds, acc) ==
    IF yds = <<>> THEN acc
    ELSE LET new == SelectSeq(LangOrder, LAMBDA l :
                        Contains(s.data, <<l, Head(yds)[1], Head(yds)[2]>>)
                            /\ l \notin Range(acc))
         IN  FirstSeen(s, Tail(yds), acc \o new)

LangSeq(s) ==
    IF kind = "runtimes" THEN SelectSeq(LangOrder, LAMBDA l : YearsIn(s, l) # {})
    ELSE FirstSeen(s, runtime_days(s.ran), <<>>)

RECURSIVE AllEntries(_, _, _)
AllEntries(s, ls, valueKey) ==
    IF ls = <<>> THEN <<>>
    ELSE LangEntries(s, Head(ls), SortedInts(YearsIn(s, Head(ls))), valueKey)
            \o AllEntries(s, Tail(ls), valueKey)

RECURSIVE add_all(_, _)
add_all(s, es) ==
    IF es = <<>> THEN s
    ELSE Then(add_new_data(s, Head(es).args, Head(es).kwargs), LAMBDA a :
             add_all(a, Tail(es)))

value_key == IF kind = "runtimes" THEN "time" ELSE "ans"

\* self.log(log_all=True, callables=self.on_exit) of either subclass
log_all(s) ==
    Then(AllEntries(s, LangSeq(s), value_key), LAMBDA es :
    Then(add_all(s, es), LAMBDA a : Log(a, a.on_exit, [log_all |-> TRUE])))

\* Logger.__call__ for one tracker: the leaves a dump reaches, keyed as in
\* the document (year, day, part, str(lang))
Dumped(s, t) ==
    LET keys == {k \in Years \X Days \X Parts \X Langs :
                    <<k[1], k[2]>> \in s.ran /\ Contains(t, <<k[4], k[1], k[2], k[3]>>)}
        docKey(k) == <<k[1], k[2], k[3], Str(k[4])>>
    IN  [dk \in {docKey(k) : k \in keys} |->
            LET k == CHOOSE k \in keys : docKey(k) = dk
            IN  t[<<k[4], k[1], k[2], k[3]>>].value]

\* the trackers of the logger with dump_this set: data, and the correct
\* answers of an AnswerLogger; both are dumped by the same four-segment lookup
Dumping(s) ==
    LET d1 == Dumped(s, s.data)
        d2 == IF kind = "answers" THEN Dumped(s, s.correct) ELSE NoLeaves
    IN  [k \in DOMAIN d1 \cup DOMAIN d2 |-> IF k \in DOMAIN d1 THEN d1[k] ELSE d2[k]]

\* the record of a call that is not a delivery of a queued entry
Call(func, event) ==
    [flush |-> 0, func |-> func, id |-> 0, args |-> <<>>, kwargs |-> [event |-> event]]

\* for func in callables: func(from_logger=self, event=event, verbose=...)
Callbacks(s, callables, event) ==
    [s EXCEPT !.delivered = @ \o [i \in 1..Len(callables) |-> Call(callables[i], event)]]

\* Logger.save_data
save_data(s) ==
    LET s1 == [s EXCEPT !.delivered = Append(@, Call("save_data", "save_data"))]
    IN  IF cfg.no_save THEN s1
        ELSE [s1 EXCEPT !.file = [exists |-> TRUE, leaves |-> Dumping(s)]]

\* the leaves of the document in the order yaml.safe_dump wrote them
RECURSIVE DocOrder(_)
DocOrder(S) ==
    IF S = {} THEN <<>>
    ELSE LET le(a, b) ==
                 \/ a[1] < b[1]
                 \/ a[1] = b[1] /\ a[2] < b[2]
                 \/ a[1] = b[1] /\ a[2] = b[2] /\ a[3] < b[3]
                 \/ a[1] = b[1] /\ a[2] = b[2] /\ a[3] = b[3] /\ StrRank(a[4]) <= StrRank(b[4])
             m == CHOOSE a \in S : \A b \in S : le(a, b)
         IN  <<m>> \o DocOrder(S \ {m})

\* log_dict of Logger.load_data: every leaf under a language key is replayed
\* through Language.add_part with event="on_load"
RECURSIVE log_dict(_, _)
log_dict(s, keys) ==
    IF keys = <<>> THEN s
    ELSE LET k == Head(keys)
             v == s.file.leaves[k]
             s1 == IF Title(k[4]) \in Langs
                   THEN IF kind = "runtimes"
                        THEN add_part(s, k[1], k[2], k[3], Title(k[4]), "None", v, "on_load")
                        ELSE add_part(s, k[1], k[2], k[3], Title(k[4]), v, "None", "on_load")
                   ELSE s
         IN  Then(s1, LAMBDA a : log_dict(a, Tail(keys)))

\* Logger.load_data, called by Logger.__enter__
load_data(s) ==
    IF cfg.no_load \/ ~s.file.exists THEN s
    ELSE Then(DocOrder(DOMAIN s.file.leaves), LAMBDA keys :
         Then(log_dict(s, keys), LAMBDA a : Callbacks(a, a.post_load, "post_load")))

\* (mutant) the document written before the final flush
ExitStepsSaveFirst == <<"pre_exit", "save_data", "log", "post_exit">>

\* the steps of a clean Logger.__exit__, in program order
ExitSteps == <<"pre_exit", "log", "save_data", "post_exit">>

ExitStep(s, step) ==
    CASE step = "pre_exit"  -> Callbacks(s, s.pre_exit, "pre_exit")
      [] step = "log"       -> log_all(s)
      [] step = "save_data" -> save_data(s)
      [] step = "post_exit" -> Callbacks(s, s.post_exit, "post_exit")

RECURSIVE DoSteps(_, _)
DoSteps(s, steps) ==
    IF steps = <<>> THEN s
    ELSE Then(ExitStep(s, Head(steps)), LAMBDA a : DoSteps(a, Tail(steps)))

\* (mutant) the document written although the block raised
AbortedAfterSave(s) == save_data(s)

\* if exc_type: print(exc_val); print(exc_tb); return False
Aborted(s) == s

\* Logger.__exit__(exc_type, exc_val, exc_tb); the return value is ~exc
logger_exit(s, exc) == IF exc THEN Aborted(s) ELSE DoSteps(s, ExitSteps)

-----------------------------------------------------------------------------
(* SpecSink: one sink through the processes that share its document        *)

Cfgs == {[no_load |-> FALSE, no_save |-> FALSE],
         [no_load |-> TRUE,  no_save |-> FALSE],
         [no_load |-> FALSE, no_save |-> TRUE]}

\* the documents an earlier process may have left at data_yaml_path
StoredRuntimes ==
    [exists |-> TRUE,
     leaves |-> (<<2023, 1, 1, "python">> :> 500 @@ <<2023, 1, 2, "python">> :> 1500
                 @@ <<2023, 2, 1, "python">> :> 500 @@ <<2023, 2, 2, "python">> :> 500)]

StoredAnswers ==
    [exists |-> TRUE, leaves |-> (<<2023, 2, 1, "python">> :> "42")]

Files(k) == {NoFile, IF k = "runtimes" THEN StoredRuntimes ELSE StoredAnswers}

\* what the site shows as solved when the first process starts (only the
\* answer sink asks the site)
KnownChoices(k) == IF k = "runtimes" THEN {{}} ELSE {{}, {<<2023, 1, 1>>}}

\* what one part of a program run yields: (ans, time)
Samples == {[ans |-> "42", time |-> 500], [ans |-> "99", time |-> 1500]}

RunYear == 2023
RunDays == {1}

InitSink ==
    /\ InitTracker
    /\ InitLogger
    /\ InitRun
    /\ kind \in {"runtimes", "answers"}
    /\ cfg \in Cfgs
    /\ file \in Files(kind)
    /\ known \in KnownChoices(kind)
    /\ cache = NoCache

\* RunnerHandler.__enter__: the viewers attach, then the logger loads
HandlerEnter ==
    /\ phase = "new"
    /\ \E s \in {load_data(Attached(Cur))} : Assign(s)
    /\ phase' = "entered"
    /\ hubOp' = "enter"
    /\ opFrom' = Len(delivered)
    /\ UNCHANGED <<kind, cfg, session, runs, exitRet, loggerExits, viewerExits, saved>>
    /\ UNCHANGED trackerVars

\* Language.run: one part of a program, reported through add_part
Run(l, d, p, smp) ==
    /\ phase = "entered"
    /\ runs < MaxRuns
    /\ \E s \in {add_part(Cur, RunYear, d, p, l, smp.ans, smp.time, "on_log")} : Assign(s)
    /\ runs' = runs + 1
    /\ hubOp' = "run"
    /\ opFrom' = Len(delivered)
    /\ UNCHANGED <<kind, cfg, phase, session, exitRet, loggerExits, viewerExits, saved>>
    /\ UNCHANGED trackerVars

\* a part whose first callback raises: log_part has run, the flush has not
\* reached self.new_data = []
RunRaises(l, d, p, smp) ==
    /\ phase = "entered"
    /\ runs < MaxRuns
    /\ on_log # <<>>
    /\ \E s \in {log_part(Cur, RunYear, d, p, l, smp.ans, smp.time, "on_log")} : Assign(s)
    /\ runs' = runs + 1
    /\ phase' = "raised"
    /\ hubOp' = "raise"
    /\ opFrom' = Len(delivered)
    /\ UNCHANGED <<kind, cfg, session, exitRet, loggerExits, viewerExits, saved>>
    /\ UNCHANGED trackerVars

\* Language.run raises before add_part (the program failed)
ProgramRaises ==
    /\ phase = "entered"
    /\ phase' = "raised"
    /\ hubOp' = "raise"
    /\ opFrom' = Len(delivered)
    /\ UNCHANGED <<kind, cfg, session, runs, exitRet, loggerExits, viewerExits, saved>>
    /\ UNCHANGED <<trackerVars, loggerVars>>

\* what the last write of the document was taken from
Snapshot(s) == [written |-> TRUE, leaves |-> Leaves(s.data), incorrect |-> s.data_incorrect]

\* RunnerHandler.__exit__: with an exception nothing is called; otherwise
\* every logger's and then every viewer's __exit__(None, None, None)
HandlerExit ==
    /\ phase \in {"entered", "raised"}
    /\ hubOp' = "handler_exit"
    /\ opFrom' = Len(delivered)
    /\ IF phase = "raised"
       THEN /\ phase' = "aborted"
            /\ exitRet' = "False"
            /\ UNCHANGED <<loggerVars, loggerExits, viewerExits, saved>>
       ELSE /\ \E s \in {logger_exit(Cur, FALSE)} : Assign(s)
            /\ phase' = "exited"
            /\ exitRet' = "True"
            /\ loggerExits' = loggerExits + 1
            /\ viewerExits' = viewerExits + 1
            /\ saved' = IF cfg.no_save THEN saved ELSE Snapshot(Cur)
    /\ UNCHANGED <<kind, cfg, session, runs>>
    /\ UNCHANGED trackerVars

\* Logger.__exit__ called by a with statement on the logger itself
LoggerExit ==
    /\ phase \in {"entered", "raised"}
    /\ hubOp' = "logger_exit"
    /\ opFrom' = Len(delivered)
    /\ \E s \in {logger_exit(Cur, phase = "raised")} : Assign(s)
    /\ phase' = IF phase = "raised" THEN "aborted" ELSE "exited"
    /\ exitRet' = IF phase = "raised" THEN "False" ELSE "True"
    /\ loggerExits' = loggerExits + 1
    /\ saved' = IF cfg.no_save \/ phase = "raised" THEN saved ELSE Snapshot(Cur)
    /\ UNCHANGED <<kind, cfg, session, runs, viewerExits>>
    /\ UNCHANGED trackerVars

\* the next process: a new logger; the document, the site and the response
\* cache are what the last process left
Restart ==
    /\ phase \in {"exited", "aborted"}
    /\ session < MaxSessions
    /\ data' = EmptyTree
    /\ data_incorrect' = NoLeaves
    /\ changed_data' = EmptyTree
    /\ changed_incorrect' = NoLeaves
    /\ correct' = EmptyTree
    /\ ran' = {}
    /\ min_time' = NoLeaves
    /\ max_time' = NoLeaves
    /\ new_data' = <<>>
    /\ post_load' = <<>>
    /\ on_log' = <<>>
    /\ pre_exit' = <<>>
    /\ on_exit' = <<>>
    /\ post_exit' = <<>>
    /\ nextId' = 1
    /\ delivered' = <<>>
    /\ flushed' = <<>>
    /\ asked' = <<>>
    /\ phase' = "new"
    /\ session' = session + 1
    /\ hubOp' = "restart"
    /\ opFrom' = 0
    /\ exitRet' = "none"
    /\ loggerExits' = 0
    /\ viewerExits' = 0
    /\ UNCHANGED <<file, known, cache, kind, cfg, runs, saved>>
    /\ UNCHANGED trackerVars

NextSink ==
    \/ HandlerEnter
    \/ \E l \in Langs, d \in RunDays, p \in Parts, smp \in Samples : Run(l, d, p, smp)
    \/ \E l \in Langs, d \in RunDays, p \in Parts, smp \in Samples : RunRaises(l, d, p, smp)
    \/ ProgramRaises
    \/ HandlerExit
    \/ LoggerExit
    \/ Restart

-----------------------------------------------------------------------------
(* Specifications                                                          *)

vars == <<trackerVars, loggerVars, runVars>>

\* a constructed tracker of either class beside an idle logger
InitTrackers ==
    /\ tracker = EmptyTree
    /\ lastErr = "none"
    /\ lastKey = <<>>
    /\ tkind \in TrackerKinds
    /\ longest = NoLongest
    /\ before = EmptyTree
    /\ lastVal = NoValue(tkind)
    /\ repeated = FALSE
    /\ trackerOp = "init"
    /\ ret = <<>>
    /\ InitIdle

\* a runtime tracker that holds the runtimes of a number of days
InitLongest ==
    /\ tracker \in {LongTree(sh.days, sh.parts, sh.pattern) : sh \in LongShapes}
    /\ lastErr = "none"
    /\ lastKey = <<>>
    /\ tkind = "runtimes"
    /\ longest = NoLongest
    /\ before = EmptyTree
    /\ lastVal = 0
    /\ repeated = FALSE
    /\ trackerOp = "init"
    /\ ret = <<>>
    /\ InitIdle

NextLongest == \E style \in Styles : Render(style)

NextTrackers ==
    \/ \E key \in TrackerKeys, v \in Values(tkind) : AddData(key, v)
    \/ \E key \in TrackerKeys : Lookup(key)
    \/ \E style \in Styles : Render(style)


\* an idle tracker beside a constructed runtime logger
Init == InitTracker /\ InitIdle

SpecTracker == Init /\ [][NextTracker]_vars

SpecTrackers == InitTrackers /\ [][NextTrackers]_vars

SpecLongest == InitLongest /\ [][NextLongest]_vars

SpecHub == Init /\ [][NextHub]_vars

NextReentrant ==
    \/ AttachViewer
    \/ \E k \in EntryKinds : AddNewData(k)
    \/ LogOnLog
    \/ LogReentrant
    \/ \E k \in EntryKinds : LogEnqueues(k)

SpecReentrant == Init /\ [][NextReentrant]_vars

SpecSink == InitSink /\ [][NextSink]_vars

\* the days whose parts are run against the site: an ordinary day and the last
OracleDays == {1, LastDay}

\* an answer sink and the site
InitOracle ==
    /\ InitSink
    /\ kind = "answers"

NextOracle ==
    \/ HandlerEnter
    \/ \E l \in Langs, d \in OracleDays, p \in Parts, smp \in Samples : Run(l, d, p, smp)

SpecOracle == InitOracle /\ [][NextOracle]_vars

\* the key paths and answers of the calls in SpecShadow
ShadowKeys == {<<l, 2023, 1, p>> : l \in Langs, p \in Parts}

ShadowAnswers == {"42", "99"}

\* an answer logger whose tracker is empty
InitShadow ==
    /\ InitTracker
    /\ InitLogger
    /\ InitRun
    /\ kind = "answers"
    /\ cfg = [no_load |-> FALSE, no_save |-> FALSE]
    /\ file = NoFile
    /\ known = {}
    /\ cache = NoCache

\* self.data.add_data(key, new_data=ans, incorrect=incorrect)
AddAnswer(key, ans, incorrect) ==
    /\ \E r \in {AnswerAddData(data, data_incorrect, key, ans, incorrect)} :
          \E s \in {[Cur EXCEPT !.data = r.tree, !.data_incorrect = r.shadow]} : Assign(s)
    /\ hubOp' = "add_data"
    /\ UNCHANGED <<kind, cfg, phase, session, runs, opFrom, exitRet, loggerExits,
                   viewerExits, saved>>
    /\ UNCHANGED trackerVars

NextShadow ==
    \E key \in ShadowKeys, ans \in ShadowAnswers, incorrect \in BOOLEAN :
        AddAnswer(key, ans, incorrect)

SpecShadow == InitShadow /\ [][NextShadow]_vars

\* the key paths of the calls in SpecAtomic: the parts of day 1, part 1 of
\* day 2 and the days themselves
AtomicKeys == {k \in TrackerKeys : Len(k) >= 3}

\* new_data of the calls in SpecAtomic: a value the update hook accepts and
\* one it raises on (the answers are strs, which the hook leaves as they are)
AtomicValues(k) == IF k = "runtimes" THEN {500, NotAFloat} ELSE {"42", NotPixels}

NextAtomic == \E key \in AtomicKeys, v \in AtomicValues(tkind) : AddData(key, v)

SpecAtomic == InitTrackers /\ [][NextAtomic]_vars

\* the keys above the last segment of a path: the levels of a tree of
\* (language, year, day, part), the shadow tracker and "longest"
PivotKeys ==
    {<<>>, <<"rust">>, <<"rust", "2023">>, <<"rust", "2023", "1">>,
     <<"incorrect">>, <<"longest">>}

\* the last segment of a path: a key, an attribute of vars(self) or a tuple
PivotLast ==
    <<[k |-> "1", tuple |-> FALSE],
      [k |-> "total", tuple |-> FALSE],
      [k |-> "average", tuple |-> FALSE],
      [k |-> <<"rust", "2023", "1", "1">>, tuple |-> TRUE],
      [k |-> <<"0", "rust", "2023", "1">>, tuple |-> TRUE],
      [k |-> <<>>, tuple |-> TRUE]>>

\* a tracker of either class and a path of get_tables, not yet resolved
InitPivot ==
    /\ tracker = EmptyTree
    /\ lastErr = "none"
    /\ \E keys \in PivotKeys, j \in 1..Len(PivotLast) :
          lastKey = [keys |-> keys, k |-> PivotLast[j].k, tuple |-> PivotLast[j].tuple]
    /\ tkind \in TrackerKinds
    /\ longest = NoLongest
    /\ before = EmptyTree
    /\ lastVal = NoValue(tkind)
    /\ repeated = FALSE
    /\ trackerOp = "init"
    /\ ret = <<>>
    /\ InitIdle

\* self.keys_to_indecies(keys + [k]) of dict_to_table
Resolve ==
    /\ trackerOp = "init"
    /\ ret' = keys_to_indecies(tkind, lastKey)
    /\ trackerOp' = "keys_to_indecies"
    /\ UNCHANGED <<tracker, lastErr, lastKey, tkind, longest, before, lastVal, repeated>>
    /\ UNCHANGED <<loggerVars, runVars>>

NextPivot == Resolve

SpecPivot == InitPivot /\ [][NextPivot]_vars

-----------------------------------------------------------------------------
(* Claims about the tracker tree                                           *)

PyDay1 == <<"Python", 2023, 1>>

\* C1: in a runtime tracker, after every add_data call every interior node
\* that has children holds total = the sum over its immediate children of
\* the child's value (a leaf) or total (a subtree), and average = total /
\* (number of immediate children).
C1_AggregatesConsistent ==
    \A p \in DOMAIN tracker :
        LET kids == Children(tracker, p)
            want == SumOver(kids, [c \in kids |->
                        IF tracker[c].leaf THEN tracker[c].value ELSE tracker[c].total])
        IN  (~tracker[p].leaf /\ kids # {}) =>
                /\ tracker[p].total = want
                /\ tracker[p].average[2] > 0
                /\ tracker[p].average[1] * Cardinality(kids) = want * tracker[p].average[2]

\* C1 witness: 0.5 s at [python,2023,1,1] and 1.5 s at [python,2023,1,2], a
\* single day: total at [python,2023,1] is 2.0 s, average at [python,2023] 2.0 s
C1_Witness ==
    /\ lastErr = "ok"
    /\ Children(tracker, <<"Python", 2023>>) = {PyDay1}
    /\ IsLeaf(tracker, Append(PyDay1, 1)) /\ tracker[Append(PyDay1, 1)].value = 500
    /\ IsLeaf(tracker, Append(PyDay1, 2)) /\ tracker[Append(PyDay1, 2)].value = 1500
    /\ tracker[PyDay1].total = 2000
    /\ tracker[<<"Python", 2023>>].average = <<2000, 1>>

\* C2 (as claimed): size() never decreases across add_data calls; a call on
\* a previously absent path raises it, an overwrite of a leaf keeps it.
C2_SizeNeverDecreases ==
    [][ /\ Size(tracker', <<>>) >= Size(tracker, <<>>)
        /\ (lastErr' = "ok" /\ lastKey' \notin DOMAIN tracker)
               => Size(tracker', <<>>) > Size(tracker, <<>>)
        /\ IsLeaf(tracker, lastKey') => Size(tracker', <<>>) = Size(tracker, <<>>)
      ]_vars

\* C3 (as claimed): add_data(p, v) on a path p bound to a subtree fails and
\* keeps the subtree; no path is ever rebound from a subtree to a scalar.
C3_SubtreeNeverBecomesLeaf ==
    [][ /\ (lastKey' # <<>> /\ IsInterior(tracker, lastKey'))
               => (lastErr' # "ok" /\ tracker' = tracker)
        /\ \A p \in DOMAIN tracker : ~tracker[p].leaf => ~IsLeaf(tracker', p)
      ]_vars

-----------------------------------------------------------------------------
(* Claims about the pending queue and the flush                            *)

PendingIds == {new_data[i].id : i \in 1..Len(new_data)}

\* the invocations of callable func made for entry id by flush f
CallsOf(id, f, func) ==
    {i \in 1..Len(delivered) :
        delivered[i].id = id /\ delivered[i].flush = f /\ delivered[i].func = func}

\* C4: every queued entry is consumed exactly once: a pending entry has not
\* been delivered; a consumed entry was taken by exactly one flush, which
\* invoked each of its callables exactly once for it, and no other flush
\* delivered it; the queue is empty when a flush returns.
C4_ConsumedExactlyOnce ==
    /\ \A id \in 1..(nextId - 1) :
          IF id \in PendingIds
          THEN \A i \in 1..Len(delivered) : delivered[i].id # id
          ELSE \E f \in 1..Len(flushed) :
                  /\ id \in Range(flushed[f].ids)
                  /\ \A g \in 1..Len(flushed) : g # f => id \notin Range(flushed[g].ids)
                  /\ \A c \in 1..Len(flushed[f].callables) :
                        Cardinality(CallsOf(id, f, flushed[f].callables[c])) = 1
                  /\ \A i \in 1..Len(delivered) :
                        delivered[i].id = id =>
                            /\ delivered[i].flush = f
                            /\ delivered[i].func \in Range(flushed[f].callables)
    /\ hubOp = "log" => new_data = <<>>

\* C4 witness: two flushes have returned, the first took two entries or more
\* and the second took an entry enqueued after the first
C4_Witness ==
    /\ hubOp = "log"
    /\ Len(flushed) = 2
    /\ Len(flushed[1].ids) >= 2
    /\ Len(flushed[2].ids) >= 1
    /\ flushed[1].callables # <<>>
    /\ flushed[2].callables # <<>>

\* C5: within one flush no entry with fewer positional segments is delivered
\* before an entry with more positional segments
C5_MostSpecificFirst ==
    \A i, j \in 1..Len(delivered) :
        (i < j /\ delivered[i].flush = delivered[j].flush /\ delivered[i].flush > 0)
            => Len(delivered[i].args) >= Len(delivered[j].args)

\* C5 witness: a flush delivered a 4-segment entry before a 3-segment entry
\* that had been enqueued earlier
C5_Witness ==
    \E i, j \in 1..Len(delivered) :
        /\ i < j
        /\ delivered[i].flush = delivered[j].flush
        /\ delivered[i].id > delivered[j].id
        /\ Len(delivered[i].args) = 4
        /\ Len(delivered[j].args) = 3

-----------------------------------------------------------------------------
(* Claims about the lifecycle of a sink                                    *)

CleanExit == hubOp \in {"handler_exit", "logger_exit"} /\ exitRet = "True"

\* the invocations made by the last Logger.log call
LastFlush == {i \in 1..Len(delivered) : delivered[i].flush = Len(flushed)}

\* a log_all entry (year, days, part, lang) that holds the leaf at path p
CoversLeaf(r, p) ==
    /\ Len(r.args) = 4
    /\ r.args[1] = p[2] /\ r.args[3] = p[4] /\ r.args[4] = p[1]
    /\ \E n \in 1..Len(r.args[2]) :
          r.args[2][n] = p[3] /\ r.kwargs[value_key][n] = data[p].value

\* the final flush hands every leaf of the tracker to every on_exit callable
FinalFlushCoversTree ==
    \A p \in DOMAIN Leaves(data) : \A c \in 1..Len(on_exit) :
        \E i \in LastFlush : delivered[i].func = on_exit[c] /\ CoversLeaf(delivered[i], p)

\* C6: after a clean Logger.__exit__ every invocation of the final flush
\* carries event = "on_exit", and the final flush covers every leaf of the
\* tracker.
C6_FinalFlushOnExit ==
    CleanExit =>
        /\ \A i \in LastFlush : delivered[i].kwargs.event = "on_exit"
        /\ FinalFlushCoversTree

\* the step of Logger.__exit__ a recorded call belongs to
Stage(r) ==
    IF r.flush > 0 THEN 2
    ELSE CASE r.kwargs.event = "pre_exit"  -> 1
           [] r.kwargs.event = "save_data" -> 3
           [] r.kwargs.event = "post_exit" -> 4
           [] OTHER -> 0

FuncsAt(seg, stage) ==
    LET at == SelectSeq(seg, LAMBDA r : Stage(r) = stage)
    IN  [i \in 1..Len(at) |-> at[i].func]

\* C7: a clean Logger.__exit__ makes, in this order and once each: the
\* pre_exit callbacks, one flush through the on_exit callables, the save,
\* the post_exit callbacks.
C7_ExitOrder ==
    [][(phase = "entered" /\ phase' = "exited") =>
        LET seg == SubSeq(delivered', Len(delivered) + 1, Len(delivered'))
        IN  /\ \A i, j \in 1..Len(seg) : i < j => Stage(seg[i]) <= Stage(seg[j])
            /\ \A i \in 1..Len(seg) : Stage(seg[i]) \in 1..4
            /\ FuncsAt(seg, 1) = pre_exit
            /\ FuncsAt(seg, 3) = <<"save_data">>
            /\ FuncsAt(seg, 4) = post_exit
            /\ Len(flushed') = Len(flushed) + 1
            /\ flushed'[Len(flushed')].callables = on_exit
            /\ \A i \in 1..Len(seg) :
                  Stage(seg[i]) = 2 => /\ seg[i].flush = Len(flushed')
                                       /\ seg[i].func \in Range(on_exit)
    ]_vars

\* C7 witness: a clean exit that made calls of all four steps and wrote the
\* document
C7_Witness ==
    /\ CleanExit
    /\ ~cfg.no_save
    /\ \A stage \in 1..4 :
          \E i \in (opFrom + 1)..Len(delivered) : Stage(delivered[i]) = stage

\* C8: an exit with an exception invokes no callback, flushes nothing, saves
\* nothing and returns False; RunnerHandler.__exit__ then calls no logger's
\* and no viewer's __exit__.
C8_AbortOnException ==
    [][(phase = "raised" /\ phase' = "aborted") =>
        /\ delivered' = delivered
        /\ flushed' = flushed
        /\ new_data' = new_data
        /\ file' = file
        /\ exitRet' = "False"
        /\ (hubOp' = "handler_exit" =>
                loggerExits' = loggerExits /\ viewerExits' = viewerExits)
    ]_vars

\* C8 witness: Logger.__exit__ has returned from an exception raised by a
\* callback: entries are pending, callbacks of every exit list are attached
C8_Witness ==
    /\ phase = "aborted"
    /\ hubOp = "logger_exit"
    /\ new_data # <<>>
    /\ pre_exit # <<>> /\ on_exit # <<>> /\ post_exit # <<>>
    /\ Size(data, <<>>) > 0
    /\ ~cfg.no_save

Loaded == hubOp = "enter" /\ ~cfg.no_load /\ file.exists

\* the tracker path of a leaf of the document
LoadedPath(k) == <<Title(k[4]), k[1], k[2], k[3]>>

LeavesLoaded ==
    /\ \A k \in DOMAIN file.leaves :
          IsLeaf(data, LoadedPath(k)) /\ data[LoadedPath(k)].value = file.leaves[k]
    /\ Size(data, <<>>) = Cardinality(DOMAIN file.leaves)

\* C9 as stated: the load adds every persisted leaf to the tracker, enqueues
\* nothing and flushes nothing (no on_log callback is invoked), and the queue
\* is empty when it finishes.
C9_LoadEnqueuesNothing ==
    Loaded =>
        /\ LeavesLoaded
        /\ nextId = 1
        /\ flushed = <<>>
        /\ \A i \in 1..Len(delivered) : delivered[i].flush = 0
        /\ new_data = <<>>

\* C9 amended: the load adds every persisted leaf to the tracker and not to
\* changed_data; the updates of each leaf are enqueued and flushed at once
\* through the on_log callables with event = "on_load" (one flush per leaf);
\* the queue is empty when the load finishes.
C9_LoadFlushesAsOnLoad ==
    Loaded =>
        /\ LeavesLoaded
        /\ changed_data = EmptyTree
        /\ new_data = <<>>
        /\ Len(flushed) = Cardinality(DOMAIN file.leaves)
        /\ \A i \in 1..Len(delivered) :
              delivered[i].flush > 0 =>
                  /\ delivered[i].kwargs.event = "on_load"
                  /\ delivered[i].func \in Range(on_log)
        /\ \A k \in DOMAIN file.leaves : \A c \in 1..Len(on_log) :
              \E i \in 1..Len(delivered) :
                  /\ delivered[i].flush > 0
                  /\ delivered[i].func = on_log[c]
                  /\ Len(delivered[i].args) = 4
                  /\ delivered[i].args = <<k[1], k[2], k[3], Title(k[4])>>

\* C9 witness: a load of a document with several leaves has finished, and an
\* aggregate entry was delivered besides the leaves
C9_Witness ==
    /\ Loaded
    /\ Len(flushed) >= 2
    /\ on_log # <<>>
    /\ \E i \in 1..Len(delivered) : delivered[i].flush > 0 /\ Len(delivered[i].args) = 3

\* a process that loaded the document written by the clean exit of an
\* earlier process
Reloaded == Loaded /\ session > 1 /\ saved.written

\* C10: saving at exit and loading at the next entry yields the same leaves
\* and, for the answer sink, the same "incorrect" shadow subtree.
C10_RoundTrip ==
    Reloaded => Leaves(data) = saved.leaves /\ data_incorrect = saved.incorrect

-----------------------------------------------------------------------------
(* Claims about the answer sink's oracle                                   *)

\* the (year, day, part) key of a leaf path of the answer tracker
CorrectKey(p) == <<p[2], p[3], p[4]>>

\* every logged answer that differs from the recorded correct answer of its
\* part has an entry in the "incorrect" shadow subtree
DifferingAreShadowed ==
    \A p \in DOMAIN Leaves(data) :
        (Contains(correct, CorrectKey(p)) /\ data[p].value # correct[CorrectKey(p)].value)
            => (p \in DOMAIN data_incorrect /\ data_incorrect[p] = data[p].value)

\* C11: in the answer sink an answer is recorded as correct only if it equals
\* the answer the site holds for the part, and every logged answer that
\* differs from the recorded correct answer is in the shadow subtree.
C11_CorrectByEquality ==
    kind = "answers" =>
        /\ \A c \in DOMAIN Leaves(correct) : correct[c].value = Truth
        /\ DifferingAreShadowed

-----------------------------------------------------------------------------
(* Claims about the leaderboard of a runtime tracker                       *)

\* the nodes the leaderboard ranks: every node of the third level (a day)
\* and every leaf above it
RankedNodes == {p \in DOMAIN tracker : Len(p) = 3 \/ (Len(p) \in 1..2 /\ tracker[p].leaf)}

\* the time of a ranked node: a leaf's value, a day's total over its parts
NodeTime(p) == IF tracker[p].leaf THEN tracker[p].value ELSE tracker[p].total

\* every entry of longest holds the current time of its node
EntriesCurrent ==
    \A i \in 1..Len(longest.entries) :
        /\ longest.entries[i].path \in RankedNodes
        /\ longest.entries[i].value = NodeTime(longest.entries[i].path)

\* longest exists and reflects the current tree (all ranked nodes, when
\* there are at most NLongest of them)
LongestCurrent ==
    /\ longest.exists
    /\ EntriesCurrent
    /\ Cardinality(RankedNodes) <= NLongest =>
           \A p \in RankedNodes : \E i \in 1..Len(longest.entries) : longest.entries[i].path = p

Min(a, b) == IF a <= b THEN a ELSE b

Descending ==
    \A i, j \in 1..Len(longest.entries) :
        i < j => longest.entries[i].value >= longest.entries[j].value

-----------------------------------------------------------------------------
(* Claims about add_data and the lookups                                   *)

AddReturned == trackerOp = "add_data" /\ lastErr = "ok"

\* C14: an add_data(p, v) that repeats the call before it leaves size(),
\* every leaf value and every aggregate (the whole tree, from which render
\* builds the table buckets) and the longest subtree unchanged.
C14_IdempotentOverwrite ==
    [][(repeated' /\ lastErr' = "ok") =>
        /\ tracker' = tracker
        /\ Size(tracker', <<>>) = Size(tracker, <<>>)
        /\ longest' = longest
      ]_vars

\* C14 witness: the second of two equal add_data calls on a part has
\* returned, in a tree that holds another leaf
C14_Witness ==
    /\ repeated
    /\ AddReturned
    /\ Len(lastKey) = 4
    /\ Size(tracker, <<>>) >= 2

\* the call created the interior nodes above the key and left every leaf
\* that is neither at nor below the key as it was
InsertFrame ==
    /\ \A n \in 1..(Len(lastKey) - 1) : IsInterior(tracker, Prefix(lastKey, n))
    /\ \A q \in DOMAIN before :
          (before[q].leaf /\ ~IsPrefix(lastKey, q))
              => (IsLeaf(tracker, q) /\ tracker[q].value = before[q].value)

C16_ContainsNeverRaises ==
    (trackerOp = "lookup" /\ lastKey # <<>>) =>
        /\ ret.contains.err = "ok"
        /\ ret.contains.val <=> ret.get.err = "ok"
        /\ lastKey \notin DOMAIN tracker =>
               (~ret.contains.val /\ ret.get.err = "KeyError")
        /\ tracker = before

\* C17: add_data with an empty key path raises, and the tree is as it was
\* before the call.
C17_EmptyKeyRejected ==
    (trackerOp = "add_data" /\ lastKey = <<>>) =>
        /\ lastErr = "IndexError"
        /\ tracker = before

\* C17 witness: add_data with an empty key has been called on a tree with
\* leaves and aggregates
C17_Witness ==
    /\ trackerOp = "add_data"
    /\ lastKey = <<>>
    /\ tkind = "runtimes"
    /\ Size(tracker, <<>>) >= 2
    /\ tracker[<<>>].total > 0


-----------------------------------------------------------------------------
(* C18: a flush attempted while another flush of the same logger is in     *)
(* progress is rejected, so it never delivers the queued entries again     *)

\* the invocations of the operation that has just acted
Acted == SubSeq(delivered, opFrom + 1, Len(delivered))

\* C18: after a flush whose callable flushed the same logger again, the nested
\* flush has taken no entry and no callable has received an entry twice
C18_ReentrantFlushRejected ==
    hubOp = "log_reentrant" =>
        /\ flushed[Len(flushed)].ids = <<>>
        /\ \A i, j \in 1..Len(Acted) :
              (i < j /\ Acted[i].func = Acted[j].func) => Acted[i].id # Acted[j].id

-----------------------------------------------------------------------------
(* C19: year tables are printed after the extra tables, each group in     *)
(* the order of its names                                                  *)

\* the names of the tables of the last render, in the order they are printed
Printed == ret.order

\* C19: in the output of every style no table with a numeric name is printed
\* before a table with another name, and two tables of the same group are
\* printed in the lexicographic order of their names
C19_YearTablesAfterExtra ==
    trackerOp = "render" =>
        \A i, j \in 1..Len(Printed) :
            i < j =>
                /\ ~(IsNumeric(Printed[i]) /\ ~IsNumeric(Printed[j]))
                /\ (IsNumeric(Printed[i]) = IsNumeric(Printed[j])
                        => StrLess(Printed[i], Printed[j]))

-----------------------------------------------------------------------------
(* C20: repeated leading row indices are blanked, and a divider is drawn   *)
(* where the leading index changes                                         *)

\* the pairs of consecutive rows of the tables of the last render that
\* collapse their row indices
CollapsedPairs ==
    UNION {{[fmt |-> ret.tables[n].fmt, first |-> ret.tables[n].rows[k],
             second |-> ret.tables[n].rows[k + 1]] :
                k \in 1..(Len(ret.tables[n].rows) - 1)} :
           n \in {m \in DOMAIN ret.tables : ret.tables[m].fmt.reduce_row_indecies}}

\* the index cells of the second row that repeat the row above are blank
RepeatsBlanked(pr) ==
    \A i \in 1..Min(Len(pr.second.cells), Len(pr.second.key)) :
        (i <= Len(pr.first.key) /\ pr.second.key[i] = pr.first.key[i])
            => pr.second.cells[i] = ""

LeadingDiffers(pr) == pr.second.key[1] # pr.first.key[1]

-----------------------------------------------------------------------------
(* C21: rendering a tracker without leaves gives the "no data" placeholder *)

\* C21: a render of a tracker that holds no leaf returns no table and the
\* placeholder "No data to display", for both tracker kinds and every style
C21_EmptyRendersPlaceholder ==
    (trackerOp = "render" /\ DOMAIN Leaves(tracker) = {}) =>
        /\ ret.order = <<>>
        /\ ret.no_data = "No data to display"

-----------------------------------------------------------------------------
(* C22: the two parts of one day of an answer tracker, rendered            *)

\* an answer tracker that holds the two parts of day 1 of 2023 of one
\* language and nothing else has just been rendered
TwoPartsRendered ==
    /\ trackerOp = "render"
    /\ tkind = "answers"
    /\ DOMAIN Leaves(tracker) = {<<"Python", 2023, 1, 1>>, <<"Python", 2023, 1, 2>>}

\* the one table named n holds two rows, the second with its repeated
\* index blanked, and the two answers in one column
TwoRowsOneColumn(n) ==
    /\ DOMAIN ret.tables = {n}
    /\ ret.order = <<n>>
    /\ Len(ret.tables[n].rows) = 2
    /\ Len(ret.tables[n].field_names) = 1
    /\ \A c \in 1..Len(ret.tables[n].rows[2].cells) : ret.tables[n].rows[2].cells[c] = ""
    /\ ret.tables[n].rows[1].data = <<tracker[<<"Python", 2023, 1, 1>>].value>>
    /\ ret.tables[n].rows[2].data = <<tracker[<<"Python", 2023, 1, 2>>].value>>

\* C22 as stated: the two leaves are rendered as one table named "Data"
C22_SingleDataTable == TwoPartsRendered => TwoRowsOneColumn("Data")

\* C22, amended: the two leaves are rendered as one table named after the
\* year, "2023", with the language as its one column and the day as the index
\* of its rows
C22_SingleYearTable ==
    TwoPartsRendered =>
        /\ TwoRowsOneColumn("2023")
        /\ ret.tables["2023"].field_names = <<"Python">>
        /\ ret.tables["2023"].rows[1].cells = <<"1">>

C22_Witness == TwoPartsRendered /\ ret.style = "DEFAULT"

-----------------------------------------------------------------------------
(* C23: add_data below a leaf aborts and leaves the tree as it was         *)

\* the last add_data was called with a key of which a proper prefix was
\* bound to a leaf
BelowLeaf ==
    /\ trackerOp = "add_data"
    /\ \E n \in 1..(Len(lastKey) - 1) : IsLeaf(before, Prefix(lastKey, n))

\* C23: add_data with a key that runs past a leaf raises, and the tree (its
\* nodes, leaves and aggregates) is as it was before the call
C23_BelowLeafAborts ==
    BelowLeaf =>
        /\ lastErr = "AttributeError"
        /\ tracker = before

\* C23 witness: such a call on a tree with two leaves, for either kind
C23_Witness ==
    /\ BelowLeaf
    /\ Size(before, <<>>) >= 2
    /\ lastErr # "ok"

-----------------------------------------------------------------------------
(* C24: entries with the same number of segments are delivered in the      *)
(* order of their segment values                                           *)

\* a < b on two argument tuples of one shape (year, day, language): they
\* differ first in a number
ArgsLess(a, b) ==
    \E i \in 1..Len(a) :
        /\ \A j \in 1..(i - 1) : a[j] = b[j]
        /\ a[i] # b[i]
        /\ a[i] < b[i]

\* the pairs of deliveries of flush f to one callable, of entries with the
\* same number of segments and the same keywords, in the order of delivery
TiedPairs(f) ==
    {pr \in (1..Len(delivered)) \X (1..Len(delivered)) :
        /\ pr[1] < pr[2]
        /\ delivered[pr[1]].flush = f /\ delivered[pr[2]].flush = f
        /\ delivered[pr[1]].func = delivered[pr[2]].func
        /\ Len(delivered[pr[1]].args) = Len(delivered[pr[2]].args)
        /\ DOMAIN delivered[pr[1]].kwargs = DOMAIN delivered[pr[2]].kwargs}

\* C24: in every flush the entries with the same number of segments are
\* delivered in one order of their segment values, ascending or descending,
\* whatever the order in which they were enqueued
C24_TiesBySegmentValues ==
    \A f \in 1..Len(flushed) :
        \/ \A pr \in TiedPairs(f) :
              ~ArgsLess(delivered[pr[2]].args, delivered[pr[1]].args)
        \/ \A pr \in TiedPairs(f) :
              ~ArgsLess(delivered[pr[1]].args, delivered[pr[2]].args)

-----------------------------------------------------------------------------
(* C25: the site is asked only for parts not yet in the correct tracker    *)

\* the leaves of the correct tracker keep their value
CorrectKept ==
    \A k \in DOMAIN correct :
        correct[k].leaf => k \in DOMAIN correct' /\ correct'[k] = correct[k]

\* C25: every call log_part makes to get_answers or submit_answer is for a
\* (year, day, part) that the correct tracker does not hold when the call is
\* made, and never for day 25 part 2; a value held by the correct tracker is
\* never overwritten while the logger lives.
C25_OracleUntilCorrect ==
    [][/\ \A i \in 1..Len(asked') :
             /\ ~asked'[i].settled
             /\ ~(asked'[i].key[2] = LastDay /\ asked'[i].key[3] = LastPart)
       /\ CorrectKept
    ]_vars

\* C25 witness: a run has reported a different answer for a part the correct
\* tracker already held, and the site was not asked
C25_Witness ==
    /\ hubOp = "run"
    /\ runs = 2
    /\ asked = <<>>
    /\ delivered # <<>>
    /\ LET last == delivered[Len(delivered)]
       IN  /\ last.args[2] = 1 /\ last.args[3] = 1
           /\ last.kwargs.ans = "99"
           /\ Contains(correct, <<2023, 1, 1>>)
           /\ correct[<<2023, 1, 1>>].value = "42"

-----------------------------------------------------------------------------
(* C26: keys_to_indecies on every path get_tables can hand it              *)

Resolved == trackerOp = "keys_to_indecies"

\* the call returned None
Skipped == ret.err = "none" /\ ret.key_data.col = ""

\* C26 as stated: for every leaf path, a tuple as last segment and a path of
\* length 1 included, keys_to_indecies of either class returns a bucket or
\* None and never raises.
C26_ResolverTotal ==
    Resolved => ret.err = "none"

-----------------------------------------------------------------------------
(* C27: the "average" attribute under RuntimeTracker.keys_to_indecies      *)

\* keys_to_indecies of a RuntimeTracker has been given a path ending in the
\* attribute "average"
AverageResolved ==
    /\ Resolved
    /\ tkind = "runtimes"
    /\ ~lastKey.tuple
    /\ lastKey.k = "average"

\* C27 as stated: the runtime resolver returns None for every path that ends
\* in "average", at every depth.
C27_AverageSkippedAtEveryDepth ==
    AverageResolved => Skipped

\* C27 amended: the runtime resolver returns None for a path ending in
\* "average" only below a day (three keys above it) or below "longest"; the
\* average of the root and of a language is bucketed in the table "Data"
\* under the column "average", and the average of a year in the year's table
\* as the row ("average",) of the language's column.
C27_AverageSkippedBelowDay ==
    AverageResolved =>
        LET keys == lastKey.keys IN
        /\ ret.err = "none"
        /\ Skipped <=> (Len(keys) = 3 \/ keys = <<"longest">>)
        /\ (Len(keys) < 2 /\ keys # <<"longest">>) =>
                /\ ret.key_data.col = "average"
                /\ ret.key_data.tab = "Data"
                /\ ret.key_data.row = keys
        /\ Len(keys) = 2 =>
                /\ ret.key_data.col = keys[1]
                /\ ret.key_data.tab = keys[2]
                /\ ret.key_data.row = <<"average">>

\* C27 witness: the average of a day has been resolved to None
C27_Witness ==
    /\ AverageResolved
    /\ lastKey.keys = <<"rust", "2023", "1">>
    /\ Skipped

-----------------------------------------------------------------------------
(* C28: what becomes of the entries a callable enqueues during a flush     *)

\* the numbers of the entries that wait in the queue
Pending == {new_data[i].id : i \in 1..Len(new_data)}

\* the numbers of the entries that the flushes made so far have taken
Taken == UNION {{flushed[f].ids[j] : j \in 1..Len(flushed[f].ids)} : f \in 1..Len(flushed)}

\* C28: every entry enqueued so far, by a callable of a running flush or by
\* anyone else, has been taken by a flush or still waits in the queue
C28_NoEntryDiscarded ==
    \A id \in 1..(nextId - 1) : id \in Pending \cup Taken

-----------------------------------------------------------------------------
(* C29: add_data that ends in an exception                                 *)

\* the last add_data call raised
AddDataRaised == trackerOp = "add_data" /\ lastErr # "ok"

\* C29: whenever add_data raises, the update hook included, the leaves, the
\* structure and the aggregates of the tree are those before the call
C29_AtomicOnFailure ==
    AddDataRaised => tracker = before

-----------------------------------------------------------------------------
(* C30: the shadow subtree "incorrect" of an answer tracker                *)

\* C30: every entry of the shadow subtree of the sink's tracker names a leaf
\* of the tracker and holds the value of that leaf
C30_ShadowMatchesLeaves ==
    kind = "answers" =>
        \A k \in DOMAIN data_incorrect :
            IsLeaf(data, k) /\ data[k].value = data_incorrect[k]

====
